---------------------------- MODULE Spec2Model ----------------------------
(***************************************************************************)
(* Model of the type-merging engine of the gateway                         *)
(* (packages/stitch/src/mergeCandidates.ts).                               *)
(*                                                                         *)
(* A merge group is a list of candidates for one type name.  A candidate   *)
(* is [subschema, type, transformedSubschema]:                             *)
(*   subschema            the identity of the candidate (the reference     *)
(*                        that `c !== candidate` compares);                *)
(*   type                 the GraphQL named type: kind, description,       *)
(*                        extensions and the kind's payload;               *)
(*   transformedSubschema isConfig is isSubschemaConfig(..); canonical is  *)
(*                        merge[type.name].canonical; fields is the set of *)
(*                        field names f with                               *)
(*                        merge[type.name].fields[f].canonical.            *)
(* An ordered dictionary (a prototype-less JS object) is a sequence of     *)
(* [k, v] entries in insertion order.                                      *)
(***************************************************************************)
EXTENDS Integers, Sequences, FiniteSets, TLC

VARIABLES typeName, candidates, typeMergingOptions, result, pc,
          transport, signer, validator, prometheus

vars == <<typeName, candidates, typeMergingOptions, result, pc,
          transport, signer, validator, prometheus>>

\* Bounds of the model.
MaxCands == 3
MaxFieldCands == 2
MaxRequests == 3
MaxExecutions == 3
MaxParams == 3
MaxHeaders == 2

Kinds == {"object", "input", "interface", "union", "enum", "scalar"}

\* null / undefined
None == "null"

NoType == [kind |-> "none"]
NoError == [message |-> "none", name |-> <<>>]

Ok(v) == [ok |-> TRUE, val |-> v, err |-> NoError, calls |-> <<>>]
OkCalls(v, calls) == [ok |-> TRUE, val |-> v, err |-> NoError, calls |-> calls]
Throw(message, name) ==
  [ok |-> FALSE, val |-> <<>>, err |-> [message |-> message, name |-> name], calls |-> <<>>]
ThrowCalls(err, calls) == [ok |-> FALSE, val |-> <<>>, err |-> err, calls |-> calls]

----------------------------------------------------------------------------
\* Ordered dictionaries.

RECURSIVE MapIndex(_, _, _)
MapIndex(m, k, i) ==
  IF i > Len(m) THEN 0 ELSE IF m[i].k = k THEN i ELSE MapIndex(m, k, i + 1)

MapHas(m, k) == MapIndex(m, k, 1) # 0
MapGet(m, k) == m[MapIndex(m, k, 1)].v
MapKeys(m) == [i \in 1..Len(m) |-> m[i].k]
MapKeySet(m) == {m[i].k : i \in 1..Len(m)}

\* acc[k] = v
MapPut(m, k, v) ==
  IF MapHas(m, k)
  THEN [m EXCEPT ![MapIndex(m, k, 1)] = [k |-> k, v |-> v]]
  ELSE Append(m, [k |-> k, v |-> v])

\* if (map[k]) map[k].push(x) else map[k] = [x]
MapPush(m, k, x) ==
  IF MapHas(m, k)
  THEN [m EXCEPT ![MapIndex(m, k, 1)].v = Append(@, x)]
  ELSE Append(m, [k |-> k, v |-> <<x>>])

Last(s) == s[Len(s)]

----------------------------------------------------------------------------
\* isSubschemaConfig(transformedSubschema)
isSubschemaConfig(transformedSubschema) == transformedSubschema.isConfig

\* isNullableType(type) / getNullableType(type), on [nonNull, ofType]
isNullableType(type) == ~type.nonNull
getNullableType(type) == [type EXCEPT !.nonNull = FALSE]

\* candidates.map(c => c.type[typeProperty]).filter(value => value != null)
pluck(typeProperty, cands) ==
  LET present == SelectSeq(cands, LAMBDA c : typeProperty \in DOMAIN c.type)
  IN [i \in 1..Len(present) |-> present[i].type[typeProperty]]

\* Mutation of ObjectAssign: a key the target already has is kept.
ObjectAssignKeep(target, source) ==
  [k \in DOMAIN target \cup DOMAIN source |->
     IF k \in DOMAIN target THEN target[k] ELSE source[k]]

\* Object.assign(target, source): the source's keys overwrite the target's
ObjectAssign(target, source) ==
  [k \in DOMAIN target \cup DOMAIN source |->
     IF k \in DOMAIN source THEN source[k] ELSE target[k]]

RECURSIVE AssignAll(_, _, _)
AssignAll(acc, sources, i) ==
  IF i > Len(sources) THEN acc
  ELSE AssignAll(ObjectAssign(acc, sources[i]), sources, i + 1)

\* Object.assign({}, ...pluck('extensions', candidates))
mergeExtensions(cands) == AssignAll(<<>>, pluck("extensions", cands), 1)

----------------------------------------------------------------------------
\* Type-level canonical resolution.

\* Mutation of defaultTypeCandidateMerger: several canonical marks are not an
\* error, the first marked candidate is taken.
defaultTypeCandidateMergerSilent(cands) ==
  LET canonical ==
        SelectSeq(cands, LAMBDA c :
          IF isSubschemaConfig(c.transformedSubschema)
          THEN c.transformedSubschema.canonical ELSE FALSE)
  IN IF Len(canonical) > 0 THEN Ok(canonical[1])
     ELSE IF Len(cands) = 0 THEN Throw("Last canonical is required", <<>>)
     ELSE Ok(Last(cands))

defaultTypeCandidateMerger(cands) ==
  LET canonical ==
        SelectSeq(cands, LAMBDA c :
          IF isSubschemaConfig(c.transformedSubschema)
          THEN c.transformedSubschema.canonical ELSE FALSE)
  IN IF Len(canonical) > 1
     THEN Throw("Multiple canonical definitions for", <<canonical[1].type.name>>)
     ELSE IF Len(canonical) > 0
     THEN Ok(canonical[1])
     ELSE IF Len(cands) = 0
     THEN Throw("Last canonical is required", <<>>)
     ELSE Ok(Last(cands))

\* A caller-supplied typeCandidateMerger: it returns the first candidate.
customTypeCandidateMerger(cands) ==
  IF Len(cands) = 0 THEN Throw("custom merger: no candidate", <<>>) ELSE Ok(cands[1])

\* Mutation of orderedTypeCandidates: the canonical candidate is resolved but
\* the list is returned in input order.
orderedTypeCandidatesInPlace(cands, options) ==
  LET candidate ==
        IF options.typeCandidateMerger = None
        THEN defaultTypeCandidateMerger(cands)
        ELSE customTypeCandidateMerger(cands)
  IN IF ~candidate.ok THEN candidate ELSE Ok(cands)

\* Mutation of orderedTypeCandidates: a caller-supplied typeCandidateMerger is
\* ignored.
orderedTypeCandidatesDefaultOnly(cands, options) ==
  LET candidate == defaultTypeCandidateMerger(cands)
  IN IF ~candidate.ok THEN candidate
     ELSE Ok(Append(
            SelectSeq(cands, LAMBDA c : c.subschema # candidate.val.subschema),
            candidate.val))

orderedTypeCandidates(cands, options) ==
  LET candidate ==
        IF options.typeCandidateMerger = None
        THEN defaultTypeCandidateMerger(cands)
        ELSE customTypeCandidateMerger(cands)
  IN IF ~candidate.ok THEN candidate
     ELSE Ok(Append(
            SelectSeq(cands, LAMBDA c : c.subschema # candidate.val.subschema),
            candidate.val))

\* Mutation of defaultTypeDescriptionMerger: the first candidate's description.
defaultTypeDescriptionMergerFirst(cands) ==
  IF Len(cands) = 0 THEN None ELSE cands[1].type.description

defaultTypeDescriptionMerger(cands) ==
  IF Len(cands) = 0 THEN None ELSE Last(cands).type.description

\* A caller-supplied typeDescriptionsMerger: the first candidate's description.
customTypeDescriptionsMerger(cands) ==
  IF Len(cands) = 0 THEN None ELSE cands[1].type.description

mergeTypeDescriptions(cands, options) ==
  IF options.typeDescriptionsMerger = None
  THEN defaultTypeDescriptionMerger(cands)
  ELSE customTypeDescriptionsMerger(cands)

----------------------------------------------------------------------------
\* Consistency validators (mergeValidations.js).  With strict validation a
\* merged field whose type differs from some candidate's type is rejected,
\* and so is an input object whose candidates do not all define every field.

validateFieldConsistency(finalFieldConfig, cands, options) ==
  IF options.strictValidation
     /\ \E i \in 1..Len(cands) : cands[i].fieldConfig.type # finalFieldConfig.type
  THEN Throw("FieldConsistencyError", <<cands[1].type.name, cands[1].fieldName>>)
  ELSE Ok(TRUE)

validateInputFieldConsistency(finalInputFieldConfig, cands, options) ==
  IF options.strictValidation
     /\ \E i \in 1..Len(cands) : cands[i].fieldConfig.type # finalInputFieldConfig.type
  THEN Throw("InputFieldConsistencyError", <<cands[1].type.name, cands[1].fieldName>>)
  ELSE Ok(TRUE)

validateInputObjectConsistency(fieldInclusionMap, cands, options) ==
  IF options.strictValidation
     /\ \E i \in 1..Len(fieldInclusionMap) : fieldInclusionMap[i].v # Len(cands)
  THEN Throw("InputObjectConsistencyError", <<cands[1].type.name>>)
  ELSE Ok(TRUE)

----------------------------------------------------------------------------
\* Field-level mergers.

\* The field config candidates of one type candidate, in field order.
fieldConfigCandidatesOf(candidate) ==
  [j \in 1..Len(candidate.type.fields) |->
     [fieldConfig |-> candidate.type.fields[j].config,
      fieldName |-> candidate.type.fields[j].name,
      type |-> candidate.type,
      subschema |-> candidate.subschema,
      transformedSubschema |-> candidate.transformedSubschema]]

RECURSIVE PushAll(_, _, _)
PushAll(map, fcs, j) ==
  IF j > Len(fcs) THEN map
  ELSE PushAll(MapPush(map, fcs[j].fieldName, fcs[j]), fcs, j + 1)

\* fieldName -> the candidates defining it, keys in first-seen order
RECURSIVE fieldConfigCandidatesMap(_, _, _)
fieldConfigCandidatesMap(cands, i, map) ==
  IF i > Len(cands) THEN map
  ELSE fieldConfigCandidatesMap(
         cands, i + 1, PushAll(map, fieldConfigCandidatesOf(cands[i]), 1))

canonicalByField(cands) ==
  SelectSeq(cands, LAMBDA c :
    /\ isSubschemaConfig(c.transformedSubschema)
    /\ c.fieldName \in c.transformedSubschema.fields)

\* Mutation of canonicalByType: the test of the type's canonical mark is
\* inverted.
canonicalByTypeInverted(cands) ==
  SelectSeq(cands, LAMBDA c :
    /\ isSubschemaConfig(c.transformedSubschema)
    /\ c.fieldName \notin c.transformedSubschema.fields
    /\ ~c.transformedSubschema.canonical)

canonicalByType(cands) ==
  SelectSeq(cands, LAMBDA c :
    /\ isSubschemaConfig(c.transformedSubschema)
    /\ c.fieldName \notin c.transformedSubschema.fields
    /\ c.transformedSubschema.canonical)

nullables(cands) ==
  SelectSeq(cands, LAMBDA c :
    isSubschemaConfig(c.transformedSubschema) /\ isNullableType(c.fieldConfig.type))

nonNullables(cands) ==
  SelectSeq(cands, LAMBDA c :
    isSubschemaConfig(c.transformedSubschema) /\ ~isNullableType(c.fieldConfig.type))

\* Mutation of relaxed: the final type is made nullable in every merge.
relaxedAlways(finalField, nonNullableFinalField) ==
  [finalField EXCEPT !.type = getNullableType(finalField.type)]

\* { ...finalField, type: getNullableType(finalField.type) } when relaxing
relaxed(finalField, nonNullableFinalField) ==
  IF nonNullableFinalField
  THEN [finalField EXCEPT !.type = getNullableType(finalField.type)]
  ELSE finalField

\* Mutation of defaultFieldConfigMerger: several field-level canonical marks
\* are not an error, the first marked definition is taken.
defaultFieldConfigMergerSilent(useNonNullableFieldOnConflict, cands) ==
  LET nonNullableFinalField ==
        /\ Len(nonNullables(cands)) > 0
        /\ Len(nullables(cands)) > 0
        /\ useNonNullableFieldOnConflict
  IN IF Len(canonicalByField(cands)) > 0
     THEN Ok(relaxed(canonicalByField(cands)[1].fieldConfig, nonNullableFinalField))
     ELSE IF Len(canonicalByType(cands)) > 0
     THEN Ok(relaxed(canonicalByType(cands)[1].fieldConfig, nonNullableFinalField))
     ELSE IF Len(cands) = 0
     THEN Throw("Field config is required", <<>>)
     ELSE Ok(relaxed(Last(cands).fieldConfig, nonNullableFinalField))

\* getDefaultFieldConfigMerger(useNonNullableFieldOnConflict)(candidates)
\* Mutation of defaultFieldConfigMerger: the type-level canonical candidate is
\* looked up before the field-level one.
defaultFieldConfigMergerTypeFirst(useNonNullableFieldOnConflict, cands) ==
  LET nonNullableFinalField ==
        /\ Len(nonNullables(cands)) > 0
        /\ Len(nullables(cands)) > 0
        /\ useNonNullableFieldOnConflict
  IN IF Len(canonicalByField(cands)) > 1 /\ Len(cands) > 0
     THEN Throw("Multiple canonical definitions for",
                <<cands[1].type.name, cands[1].fieldName>>)
     ELSE IF Len(canonicalByType(cands)) > 0
     THEN Ok(relaxed(canonicalByType(cands)[1].fieldConfig, nonNullableFinalField))
     ELSE IF Len(canonicalByField(cands)) > 0
     THEN Ok(relaxed(canonicalByField(cands)[1].fieldConfig, nonNullableFinalField))
     ELSE IF Len(cands) = 0
     THEN Throw("Field config is required", <<>>)
     ELSE Ok(relaxed(Last(cands).fieldConfig, nonNullableFinalField))

\* Mutation of defaultFieldConfigMerger: without canonical marks the first
\* candidate, not the last, supplies the config.
defaultFieldConfigMergerFirstWins(useNonNullableFieldOnConflict, cands) ==
  LET nonNullableFinalField ==
        /\ Len(nonNullables(cands)) > 0
        /\ Len(nullables(cands)) > 0
        /\ useNonNullableFieldOnConflict
  IN IF Len(canonicalByField(cands)) > 1 /\ Len(cands) > 0
     THEN Throw("Multiple canonical definitions for",
                <<cands[1].type.name, cands[1].fieldName>>)
     ELSE IF Len(canonicalByField(cands)) > 0
     THEN Ok(relaxed(canonicalByField(cands)[1].fieldConfig, nonNullableFinalField))
     ELSE IF Len(canonicalByType(cands)) > 0
     THEN Ok(relaxed(canonicalByType(cands)[1].fieldConfig, nonNullableFinalField))
     ELSE IF Len(cands) = 0
     THEN Throw("Field config is required", <<>>)
     ELSE Ok(relaxed(cands[1].fieldConfig, nonNullableFinalField))

defaultFieldConfigMerger(useNonNullableFieldOnConflict, cands) ==
  LET nonNullableFinalField ==
        /\ Len(nonNullables(cands)) > 0
        /\ Len(nullables(cands)) > 0
        /\ useNonNullableFieldOnConflict
  IN IF Len(canonicalByField(cands)) > 1 /\ Len(cands) > 0
     THEN Throw("Multiple canonical definitions for",
                <<cands[1].type.name, cands[1].fieldName>>)
     ELSE IF Len(canonicalByField(cands)) > 0
     THEN Ok(relaxed(canonicalByField(cands)[1].fieldConfig, nonNullableFinalField))
     ELSE IF Len(canonicalByType(cands)) > 0
     THEN Ok(relaxed(canonicalByType(cands)[1].fieldConfig, nonNullableFinalField))
     ELSE IF Len(cands) = 0
     THEN Throw("Field config is required", <<>>)
     ELSE Ok(relaxed(Last(cands).fieldConfig, nonNullableFinalField))

\* A caller-supplied fieldConfigMerger / inputFieldConfigMerger: the first
\* candidate's config.
customFieldConfigMerger(cands) == Ok(cands[1].fieldConfig)

\* Mutation of getDefaultFieldConfigMerger: the option defaults to true.
getDefaultFieldConfigMergerRelaxing(useNonNullableFieldOnConflict, cands) ==
  defaultFieldConfigMerger(
    IF useNonNullableFieldOnConflict = None THEN TRUE
    ELSE useNonNullableFieldOnConflict = "true",
    cands)

\* useNonNullableFieldOnConflict = false when the option is absent
getDefaultFieldConfigMerger(useNonNullableFieldOnConflict, cands) ==
  defaultFieldConfigMerger(
    IF useNonNullableFieldOnConflict = None THEN FALSE
    ELSE useNonNullableFieldOnConflict = "true",
    cands)

\* validateFieldConsistency(finalFieldConfig, candidates, typeMergingOptions)
\* in the call trace: the field, the config and the candidates (by subschema)
\* the validator receives.
validateCall(fieldName, finalFieldConfig, cands) ==
  <<"validateFieldConsistency", fieldName, finalFieldConfig,
    [i \in 1..Len(cands) |-> cands[i].subschema]>>

\* Mutation of mergeFieldConfigs: an error of the field merger is caught and
\* the first candidate's config is used instead.
mergeFieldConfigsCatching(cands, options) ==
  LET fieldName == cands[1].fieldName
      merged ==
        IF options.fieldConfigMerger = None
        THEN getDefaultFieldConfigMerger(options.useNonNullableFieldOnConflict, cands)
        ELSE customFieldConfigMerger(cands)
      finalFieldConfig == IF merged.ok THEN merged.val ELSE cands[1].fieldConfig
      valid == validateFieldConsistency(finalFieldConfig, cands, options)
      calls == <<<<"fieldConfigMerger", fieldName>>,
                 validateCall(fieldName, finalFieldConfig, cands)>>
  IN IF ~valid.ok THEN ThrowCalls(valid.err, calls)
     ELSE OkCalls(finalFieldConfig, calls)

\* Mutation of mergeFieldConfigs: the merged config is returned without
\* being validated.
mergeFieldConfigsUnvalidated(cands, options) ==
  LET fieldName == cands[1].fieldName
      finalFieldConfig ==
        IF options.fieldConfigMerger = None
        THEN getDefaultFieldConfigMerger(options.useNonNullableFieldOnConflict, cands)
        ELSE customFieldConfigMerger(cands)
      mergerCall == <<<<"fieldConfigMerger", fieldName>>>>
  IN IF ~finalFieldConfig.ok THEN ThrowCalls(finalFieldConfig.err, mergerCall)
     ELSE OkCalls(finalFieldConfig.val, mergerCall)

mergeFieldConfigs(cands, options) ==
  LET fieldName == cands[1].fieldName
      finalFieldConfig ==
        IF options.fieldConfigMerger = None
        THEN getDefaultFieldConfigMerger(options.useNonNullableFieldOnConflict, cands)
        ELSE customFieldConfigMerger(cands)
      mergerCall == <<<<"fieldConfigMerger", fieldName>>>>
  IN IF ~finalFieldConfig.ok THEN ThrowCalls(finalFieldConfig.err, mergerCall)
     ELSE LET valid == validateFieldConsistency(finalFieldConfig.val, cands, options)
              calls == mergerCall \o
                         <<validateCall(fieldName, finalFieldConfig.val, cands)>>
          IN IF ~valid.ok THEN ThrowCalls(valid.err, calls)
             ELSE OkCalls(finalFieldConfig.val, calls)

\* for (const fieldName in fieldConfigCandidatesMap) fieldConfigMap[fieldName] = ...
RECURSIVE mergeFieldsLoop(_, _, _, _, _)
mergeFieldsLoop(candidatesMap, options, i, fieldConfigMap, calls) ==
  IF i > Len(candidatesMap) THEN OkCalls(fieldConfigMap, calls)
  ELSE LET merged == mergeFieldConfigs(candidatesMap[i].v, options)
       IN IF ~merged.ok THEN ThrowCalls(merged.err, calls \o merged.calls)
          ELSE mergeFieldsLoop(candidatesMap, options, i + 1,
                 MapPut(fieldConfigMap, candidatesMap[i].k, merged.val),
                 calls \o merged.calls)

\* Mutation of fieldConfigMapFromTypeCandidates: only the fields of the last
\* candidate are collected.
fieldConfigMapFromLastCandidate(cands, options) ==
  mergeFieldsLoop(fieldConfigCandidatesMap(<<Last(cands)>>, 1, <<>>), options, 1, <<>>, <<>>)

fieldConfigMapFromTypeCandidates(cands, options) ==
  mergeFieldsLoop(fieldConfigCandidatesMap(cands, 1, <<>>), options, 1, <<>>, <<>>)

\* Input fields.

defaultInputFieldConfigMerger(cands) ==
  IF Len(canonicalByField(cands)) > 1 /\ Len(cands) > 0
  THEN Throw("Multiple canonical definitions for",
             <<cands[1].type.name, cands[1].fieldName>>)
  ELSE IF Len(canonicalByField(cands)) > 0
  THEN Ok(canonicalByField(cands)[1].fieldConfig)
  ELSE IF Len(canonicalByType(cands)) > 0
  THEN Ok(canonicalByType(cands)[1].fieldConfig)
  ELSE IF Len(cands) = 0
  THEN Throw("Last candidate is required", <<>>)
  ELSE Ok(Last(cands).fieldConfig)

\* Mutation of MapIncrement: the count is set, not incremented.
MapIncrementReset(m, k) == MapPut(m, k, 1)

\* fieldInclusionMap[fieldName] = fieldInclusionMap[fieldName] || 0;
\* fieldInclusionMap[fieldName] += 1
MapIncrement(m, k) ==
  MapPut(m, k, (IF MapHas(m, k) THEN MapGet(m, k) ELSE 0) + 1)

RECURSIVE IncrementAll(_, _, _)
IncrementAll(map, fields, j) ==
  IF j > Len(fields) THEN map
  ELSE IncrementAll(MapIncrement(map, fields[j].name), fields, j + 1)

\* the tally after the loop over the candidates and their fields
RECURSIVE fieldInclusionMapFrom(_, _, _)
fieldInclusionMapFrom(cands, i, map) ==
  IF i > Len(cands) THEN map
  ELSE fieldInclusionMapFrom(cands, i + 1, IncrementAll(map, cands[i].type.fields, 1))

fieldInclusionMap(cands) == fieldInclusionMapFrom(cands, 1, <<>>)

RECURSIVE mergeInputFieldsLoop(_, _, _, _, _)
mergeInputFieldsLoop(candidatesMap, options, i, inputFieldConfigMap, calls) ==
  IF i > Len(candidatesMap) THEN OkCalls(inputFieldConfigMap, calls)
  ELSE LET fieldName == candidatesMap[i].k
           merged ==
             IF options.inputFieldConfigMerger = None
             THEN defaultInputFieldConfigMerger(candidatesMap[i].v)
             ELSE customFieldConfigMerger(candidatesMap[i].v)
           mergerCalls == calls \o <<<<"inputFieldConfigMerger", fieldName>>>>
       IN IF ~merged.ok THEN ThrowCalls(merged.err, mergerCalls)
          ELSE LET valid == validateInputFieldConsistency(
                              merged.val, candidatesMap[i].v, options)
                   validCalls ==
                     mergerCalls \o <<<<"validateInputFieldConsistency", fieldName>>>>
               IN IF ~valid.ok THEN ThrowCalls(valid.err, validCalls)
                  ELSE mergeInputFieldsLoop(candidatesMap, options, i + 1,
                         MapPut(inputFieldConfigMap, fieldName, merged.val),
                         validCalls)

inputFieldConfigMapFromTypeCandidates(cands, options) ==
  LET candidatesMap == fieldConfigCandidatesMap(cands, 1, <<>>)
      valid == validateInputObjectConsistency(
                 fieldInclusionMap(cands), cands, options)
      calls == <<<<"validateInputObjectConsistency", fieldInclusionMap(cands),
                   [i \in 1..Len(cands) |-> cands[i].subschema]>>>>
  IN IF ~valid.ok THEN ThrowCalls(valid.err, calls)
     ELSE mergeInputFieldsLoop(candidatesMap, options, 1, <<>>, calls)

----------------------------------------------------------------------------
\* Enum values.

enumValueConfigCandidatesOf(candidate) ==
  [j \in 1..Len(candidate.type.values) |->
     [enumValueConfig |-> candidate.type.values[j].config,
      enumValue |-> candidate.type.values[j].name,
      fieldName |-> candidate.type.values[j].name,
      type |-> candidate.type,
      subschema |-> candidate.subschema,
      transformedSubschema |-> candidate.transformedSubschema]]

RECURSIVE enumValueConfigCandidatesMap(_, _, _)
enumValueConfigCandidatesMap(cands, i, map) ==
  IF i > Len(cands) THEN map
  ELSE enumValueConfigCandidatesMap(
         cands, i + 1, PushAll(map, enumValueConfigCandidatesOf(cands[i]), 1))

\* Mutation of defaultEnumValueConfigMerger: the first candidate's config.
defaultEnumValueConfigMergerFirst(cands) ==
  IF Len(cands) = 0 THEN Throw("Last canonical is required", <<>>)
  ELSE Ok(cands[1].enumValueConfig)

defaultEnumValueConfigMerger(cands) ==
  LET preferred ==
        SelectSeq(cands, LAMBDA c :
          isSubschemaConfig(c.transformedSubschema) /\ c.transformedSubschema.canonical)
  IN IF Len(cands) = 0 THEN Throw("Last canonical is required", <<>>)
     ELSE IF Len(preferred) > 0 THEN Ok(preferred[1].enumValueConfig)
     ELSE Ok(Last(cands).enumValueConfig)

\* A caller-supplied enumValueConfigMerger: the first candidate's config.
customEnumValueConfigMerger(cands) == Ok(cands[1].enumValueConfig)

RECURSIVE mergeEnumValuesLoop(_, _, _, _, _)
mergeEnumValuesLoop(candidatesMap, options, i, enumValueConfigMap, calls) ==
  IF i > Len(candidatesMap) THEN OkCalls(enumValueConfigMap, calls)
  ELSE LET merged ==
             IF options.enumValueConfigMerger = None
             THEN defaultEnumValueConfigMerger(candidatesMap[i].v)
             ELSE customEnumValueConfigMerger(candidatesMap[i].v)
           mergerCalls == calls \o <<<<"enumValueConfigMerger", candidatesMap[i].k>>>>
       IN IF ~merged.ok THEN ThrowCalls(merged.err, mergerCalls)
          ELSE mergeEnumValuesLoop(candidatesMap, options, i + 1,
                 MapPut(enumValueConfigMap, candidatesMap[i].k, merged.val),
                 mergerCalls)

enumValueConfigMapFromTypeCandidates(cands, options) ==
  mergeEnumValuesLoop(enumValueConfigCandidatesMap(cands, 1, <<>>), options, 1, <<>>, <<>>)

----------------------------------------------------------------------------
\* Interfaces of objects and interfaces, member types of unions: a dictionary
\* by name, filled in candidate order (acc[iface.name] = iface).

RECURSIVE PutAll(_, _, _)
PutAll(map, named, j) ==
  IF j > Len(named) THEN map
  ELSE PutAll(MapPut(map, named[j].name, named[j]), named, j + 1)

RECURSIVE namedTypeMap(_, _, _)
namedTypeMap(lists, i, map) ==
  IF i > Len(lists) THEN map
  ELSE namedTypeMap(lists, i + 1, PutAll(map, lists[i], 1))

\* Object.values(map)
ObjectValues(map) == [i \in 1..Len(map) |-> map[i].v]

\* Mutation of mergeInterfaces: the candidates' interfaces are concatenated,
\* not keyed by name.
RECURSIVE ConcatAll(_, _)
ConcatAll(lists, i) ==
  IF i > Len(lists) THEN <<>> ELSE lists[i] \o ConcatAll(lists, i + 1)

mergeInterfacesConcat(cands) ==
  ConcatAll([i \in 1..Len(cands) |-> cands[i].type.interfaces], 1)

mergeInterfaces(cands) ==
  ObjectValues(namedTypeMap([i \in 1..Len(cands) |-> cands[i].type.interfaces], 1, <<>>))

mergeUnionTypes(cands) ==
  ObjectValues(namedTypeMap([i \in 1..Len(cands) |-> cands[i].type.types], 1, <<>>))

----------------------------------------------------------------------------
\* Per-kind mergers.  Each returns the config of the merged type, or the error
\* thrown, with the stages it called.

orderCall == <<<<"typeCandidateMerger">>>>
descriptionCall == <<<<"typeDescriptionsMerger">>>>

\* The names a merge config lists under `fields`, in the order it lists them
\* (for (const fieldName in mergeConfig.fields)); every listed field is
\* marked canonical.
mergeConfigFieldNames(transformedSubschema) ==
  SelectSeq(<<"bar", "baz">>, LAMBDA f : f \in transformedSubschema.fields)

RECURSIVE MarkAll(_, _, _)
MarkAll(map, names, j) ==
  IF j > Len(names) THEN map
  ELSE MarkAll(MapPut(map, names[j], TRUE), names, j + 1)

RECURSIVE canonicalFieldNamesFrom(_, _, _)
canonicalFieldNamesFrom(cands, i, map) ==
  IF i > Len(cands) THEN map
  ELSE canonicalFieldNamesFrom(cands, i + 1,
         IF /\ isSubschemaConfig(cands[i].transformedSubschema)
            /\ ~cands[i].transformedSubschema.canonical
         THEN MarkAll(map, mergeConfigFieldNames(cands[i].transformedSubschema), 1)
         ELSE map)

\* Mutation of canonicalFieldNamesForType: the fields of a merge config that
\* marks the type canonical are collected too.
canonicalFieldNamesForAnyConfig(cands) ==
  LET Names(i, map) ==
        IF isSubschemaConfig(cands[i].transformedSubschema)
        THEN MarkAll(map, mergeConfigFieldNames(cands[i].transformedSubschema), 1)
        ELSE map
      F[i \in 0..Len(cands)] == IF i = 0 THEN <<>> ELSE Names(i, F[i - 1])
  IN MapKeys(F[Len(cands)])

\* Object.keys(canonicalFieldNames)
canonicalFieldNamesForType(cands) == MapKeys(canonicalFieldNamesFrom(cands, 1, <<>>))

\* canonicalFieldNamesForType(candidates)
\*   .map(fieldName => fields[fieldName]?.astNode).filter(n => n != null)
fieldAstNodesOf(cands, fields) ==
  LET names ==
        SelectSeq(canonicalFieldNamesForType(cands), LAMBDA f :
          IF MapHas(fields, f) THEN "astNode" \in DOMAIN MapGet(fields, f) ELSE FALSE)
  IN [j \in 1..Len(names) |-> MapGet(fields, names[j]).astNode]

\* The AST nodes handed to the fold (mergeType, mergeInputType,
\* mergeInterface): the plucked nodes and, if (astNodes.length > 1 &&
\* fieldAstNodes.length), the pushed { ...last, fields: fieldAstNodes }.
astNodesWithFields(cands, fields) ==
  LET astNodes == pluck("astNode", cands)
      fieldAstNodes == fieldAstNodesOf(cands, fields)
  IN IF Len(astNodes) > 1 /\ Len(fieldAstNodes) > 0
     THEN Append(astNodes, [Last(astNodes) EXCEPT !.fields = fieldAstNodes])
     ELSE astNodes

mergedType(kind, name, description, cands) ==
  [kind |-> kind, name |-> name, description |-> description,
   fields |-> <<>>, interfaces |-> <<>>, types |-> <<>>, values |-> <<>>,
   astNodes |-> pluck("astNode", cands),
   extensionASTNodes |-> pluck("extensionASTNodes", cands),
   extensions |-> mergeExtensions(cands)]

mergeObjectTypeCandidates(name, cands, options) ==
  LET ordered == orderedTypeCandidates(cands, options)
  IN IF ~ordered.ok THEN ThrowCalls(ordered.err, orderCall)
     ELSE LET description == mergeTypeDescriptions(ordered.val, options)
              fields == fieldConfigMapFromTypeCandidates(ordered.val, options)
              calls == orderCall \o descriptionCall \o fields.calls
          IN IF ~fields.ok THEN ThrowCalls(fields.err, calls)
             ELSE OkCalls(
                    [mergedType("object", name, description, ordered.val)
                       EXCEPT !.fields = fields.val,
                              !.astNodes = astNodesWithFields(ordered.val, fields.val),
                              !.interfaces = mergeInterfaces(ordered.val)],
                    calls)

mergeInputObjectTypeCandidates(name, cands, options) ==
  LET ordered == orderedTypeCandidates(cands, options)
  IN IF ~ordered.ok THEN ThrowCalls(ordered.err, orderCall)
     ELSE LET description == mergeTypeDescriptions(ordered.val, options)
              fields == inputFieldConfigMapFromTypeCandidates(ordered.val, options)
              calls == orderCall \o descriptionCall \o fields.calls
          IN IF ~fields.ok THEN ThrowCalls(fields.err, calls)
             ELSE OkCalls(
                    [mergedType("input", name, description, ordered.val)
                       EXCEPT !.fields = fields.val,
                              !.astNodes = astNodesWithFields(ordered.val, fields.val)],
                    calls)

mergeInterfaceTypeCandidates(name, cands, options) ==
  LET ordered == orderedTypeCandidates(cands, options)
  IN IF ~ordered.ok THEN ThrowCalls(ordered.err, orderCall)
     ELSE LET description == mergeTypeDescriptions(ordered.val, options)
              fields == fieldConfigMapFromTypeCandidates(ordered.val, options)
              calls == orderCall \o descriptionCall \o fields.calls
          IN IF ~fields.ok THEN ThrowCalls(fields.err, calls)
             ELSE OkCalls(
                    [mergedType("interface", name, description, ordered.val)
                       EXCEPT !.fields = fields.val,
                              !.astNodes = astNodesWithFields(ordered.val, fields.val),
                              !.interfaces = mergeInterfaces(ordered.val)],
                    calls)

mergeUnionTypeCandidates(name, cands, options) ==
  LET ordered == orderedTypeCandidates(cands, options)
  IN IF ~ordered.ok THEN ThrowCalls(ordered.err, orderCall)
     ELSE LET description == mergeTypeDescriptions(ordered.val, options)
          IN OkCalls(
               [mergedType("union", name, description, ordered.val)
                  EXCEPT !.types = mergeUnionTypes(ordered.val)],
               orderCall \o descriptionCall)

mergeEnumTypeCandidates(name, cands, options) ==
  LET ordered == orderedTypeCandidates(cands, options)
  IN IF ~ordered.ok THEN ThrowCalls(ordered.err, orderCall)
     ELSE LET description == mergeTypeDescriptions(ordered.val, options)
              values == enumValueConfigMapFromTypeCandidates(ordered.val, options)
              calls == orderCall \o descriptionCall \o values.calls
          IN IF ~values.ok THEN ThrowCalls(values.err, calls)
             ELSE OkCalls(
                    [mergedType("enum", name, description, ordered.val)
                       EXCEPT !.values = values.val],
                    calls)

\* Mutation of lastFn: the first plucked function is taken.
firstFn(fns) == IF Len(fns) = 0 THEN None ELSE fns[1]

\* serializeFns[serializeFns.length - 1], undefined for an empty array
lastFn(fns) == IF Len(fns) = 0 THEN None ELSE fns[Len(fns)]

\* for (const candidate of candidates)
\*   if ('specifiedByURL' in candidate.type && candidate.type.specifiedByURL) ... break
specifiedByURLOf(cands) ==
  LET specified ==
        SelectSeq(cands, LAMBDA c :
          /\ "specifiedByURL" \in DOMAIN c.type
          /\ c.type.specifiedByURL \notin {None, ""})
  IN IF Len(specified) = 0 THEN None ELSE specified[1].type.specifiedByURL

\* `candidates` is reassigned to the ordered list: every later read, the
\* specifiedByURL loop included, sees the ordered list.
mergeScalarTypeCandidates(name, cands, options) ==
  LET ordered == orderedTypeCandidates(cands, options)
  IN IF ~ordered.ok THEN ThrowCalls(ordered.err, orderCall)
     ELSE LET description == mergeTypeDescriptions(ordered.val, options)
          IN OkCalls(mergedType("scalar", name, description, ordered.val) @@
                       [serialize |-> lastFn(pluck("serialize", ordered.val)),
                        parseValue |-> lastFn(pluck("parseValue", ordered.val)),
                        parseLiteral |-> lastFn(pluck("parseLiteral", ordered.val)),
                        specifiedByURL |-> specifiedByURLOf(ordered.val)],
                     orderCall \o descriptionCall)

\* Mutation of categoryMismatch: the category check is left out.
categoryMismatchSkipped(cands) == FALSE

\* candidates.some(c => c.type.constructor !== initialCandidateType?.constructor)
categoryMismatch(cands) ==
  \E i \in 1..Len(cands) : cands[i].type.kind # cands[1].type.kind

mergeCandidates(name, cands, options) ==
  LET initialKind == IF Len(cands) = 0 THEN None ELSE cands[1].type.kind
  IN IF categoryMismatch(cands)
     THEN Throw("Cannot merge different type categories into common type", <<name>>)
     ELSE CASE initialKind = "object" -> mergeObjectTypeCandidates(name, cands, options)
            [] initialKind = "input" -> mergeInputObjectTypeCandidates(name, cands, options)
            [] initialKind = "interface" -> mergeInterfaceTypeCandidates(name, cands, options)
            [] initialKind = "union" -> mergeUnionTypeCandidates(name, cands, options)
            [] initialKind = "enum" -> mergeEnumTypeCandidates(name, cands, options)
            [] initialKind = "scalar" -> mergeScalarTypeCandidates(name, cands, options)
            [] OTHER -> Throw("has unknown GraphQL type", <<name>>)

----------------------------------------------------------------------------
\* Inputs: the merge groups and options the specifications draw from.

String == [nonNull |-> FALSE, ofType |-> "String"]
NonNullString == [nonNull |-> TRUE, ofType |-> "String"]

NoConfig == [isConfig |-> FALSE, canonical |-> FALSE, fields |-> {}]
Config(canonical, fields) == [isConfig |-> TRUE, canonical |-> canonical, fields |-> fields]

HasFields(kind) == kind \in {"object", "interface", "input"}

\* The properties only a GraphQLScalarType has.  Its constructor always sets
\* the three functions; specifiedByURL is undefined unless given.
ScalarProperties(kind, id) ==
  IF kind = "scalar"
  THEN [serialize |-> [fn |-> "serialize", from |-> id],
        parseValue |-> [fn |-> "parseValue", from |-> id],
        parseLiteral |-> [fn |-> "parseLiteral", from |-> id],
        specifiedByURL |-> None]
  ELSE <<>>

\* The candidate of subschema `id`.  Its extensionASTNodes, an array every
\* GraphQL type has (empty by default), is written [items |-> <<nodes>>], so
\* that an array and a node are both records and a list can hold either.
\* `fields` is a sequence of [name, type],
\* `members` the names of its interfaces (object, interface), member types
\* (union) or values (enum).  A config object (field config, enum value config,
\* interface or member type) carries `from`, the subschema that supplied it.
MkCandidate(id, kind, name, transformedSubschema, description, extensions, fields, members) ==
  [subschema |-> id,
   transformedSubschema |-> transformedSubschema,
   type |->
     ScalarProperties(kind, id) @@
     [kind |-> kind, name |-> name, description |-> description,
      extensions |-> extensions,
      extensionASTNodes |-> [items |-> <<>>],
      fields |->
        IF HasFields(kind)
        THEN [j \in 1..Len(fields) |->
                [name |-> fields[j].name,
                 config |-> [type |-> fields[j].type, from |-> id]]]
        ELSE <<>>,
      interfaces |->
        IF kind \in {"object", "interface"}
        THEN [j \in 1..Len(members) |-> [name |-> members[j], from |-> id]]
        ELSE <<>>,
      types |->
        IF kind = "union"
        THEN [j \in 1..Len(members) |-> [name |-> members[j], from |-> id]]
        ELSE <<>>,
      values |->
        IF kind = "enum"
        THEN [j \in 1..Len(members) |->
                [name |-> members[j], config |-> [value |-> members[j], from |-> id]]]
        ELSE <<>>]]

DefaultOptions ==
  [typeCandidateMerger |-> None, typeDescriptionsMerger |-> None,
   fieldConfigMerger |-> None, inputFieldConfigMerger |-> None,
   enumValueConfigMerger |-> None,
   useNonNullableFieldOnConflict |-> None, strictValidation |-> FALSE]

NoResult == [status |-> "none", type |-> NoType, error |-> NoError, calls |-> <<>>]

TypeShapes == {NoConfig, Config(FALSE, {}), Config(TRUE, {})}

\* Merge groups of any mix of kinds, with and without canonical marks.
KindShapes == Kinds \X TypeShapes

KindGroup(sh) ==
  [i \in 1..Len(sh) |->
     MkCandidate(i, sh[i][1], "Foo", sh[i][2], None, <<>>,
                 <<[name |-> "bar", type |-> String]>>, <<"A">>)]

\* Merge groups of one kind whose candidates differ in description,
\* extensions and members.
Profiles ==
  {[description |-> "a", extensions |-> [x |-> 1, y |-> 2], members |-> <<"A">>],
   [description |-> "b", extensions |-> [y |-> 3, z |-> 4], members |-> <<"A", "B">>],
   [description |-> "c", extensions |-> <<>>, members |-> <<"C", "A">>],
   [description |-> None, extensions |-> [x |-> 5], members |-> <<>>]}

ProfileShapes == TypeShapes \X Profiles

ProfileGroup(kind, sh) ==
  [i \in 1..Len(sh) |->
     MkCandidate(i, kind, "Foo", sh[i][1], sh[i][2].description,
                 sh[i][2].extensions,
                 <<[name |-> "bar", type |-> String]>>, sh[i][2].members)]

\* Merge groups of object, interface or input object types whose candidates
\* differ in their fields, the fields' nullability and the canonical marks.
FieldLists ==
  {<<[name |-> "bar", type |-> String]>>,
   <<[name |-> "bar", type |-> NonNullString]>>,
   <<[name |-> "bar", type |-> String], [name |-> "baz", type |-> String]>>,
   <<[name |-> "baz", type |-> String], [name |-> "bar", type |-> NonNullString]>>}

FieldNamesOf(fields) == {fields[j].name : j \in 1..Len(fields)}

FieldShapes ==
  {<<ts, fields>> \in
     ({NoConfig} \cup {Config(c, fs) : c \in BOOLEAN, fs \in SUBSET {"bar", "baz"}})
       \X FieldLists :
     ts.fields \subseteq FieldNamesOf(fields)}

FieldGroup(kind, sh) ==
  [i \in 1..Len(sh) |->
     MkCandidate(i, kind, "Foo", sh[i][1], None, <<>>, sh[i][2], <<>>)]

\* Merge groups of scalar types whose candidates differ in specifiedByURL
\* and the canonical mark.
URLs == {None, "a", "b"}

ScalarShapes == TypeShapes \X URLs

ScalarGroup(sh) ==
  [i \in 1..Len(sh) |->
     LET c == MkCandidate(i, "scalar", "Foo", sh[i][1], None, <<>>, <<>>, <<>>)
     IN [c EXCEPT !.type.specifiedByURL = sh[i][2]]]

\* Merge groups of exactly one candidate, of any kind, with any of the
\* descriptions, extensions, members, fields, marks and URLs above.
SingleShapes == Kinds \X FieldShapes \X Profiles \X URLs

SingleGroup(sh) ==
  LET c == MkCandidate(1, sh[1], "Foo", sh[2][1], sh[3].description,
                       sh[3].extensions, sh[2][2], sh[3].members)
  IN <<IF sh[1] = "scalar" THEN [c EXCEPT !.type.specifiedByURL = sh[4]] ELSE c>>

\* Options of the merges with a caller-supplied field merger.
ValidationOptions ==
  {[DefaultOptions EXCEPT !.fieldConfigMerger = m,
                          !.useNonNullableFieldOnConflict = u,
                          !.strictValidation = s]
     : m \in {None, "custom"}, u \in {None, "true"}, s \in BOOLEAN}

\* Merge groups of object, interface or input object types whose candidates
\* differ in having AST nodes: none, one for the type only (a type without
\* field nodes), or one for the type and one for each of its fields.
AstKinds == {"none", "type", "typeAndFields"}

AstShapes ==
  {<<sh[1], sh[2], ast>> : sh \in {fs \in FieldShapes : \A j \in 1..Len(fs[2]) :
                                     fs[2][j].type = String /\ fs[2][1].name = "bar"},
                           ast \in AstKinds}

AstCandidate(i, kind, sh) ==
  LET c == MkCandidate(i, kind, "Foo", sh[1], None, <<>>, sh[2], <<>>)
      fieldNode(j) == [field |-> c.type.fields[j].name, from |-> i]
      fields ==
        [j \in 1..Len(c.type.fields) |->
           IF sh[3] = "typeAndFields"
           THEN [c.type.fields[j] EXCEPT !.config = @ @@ [astNode |-> fieldNode(j)]]
           ELSE c.type.fields[j]]
      node ==
        [kind |-> "definition", from |-> i,
         fields |-> IF sh[3] = "typeAndFields"
                    THEN [j \in 1..Len(c.type.fields) |-> fieldNode(j)]
                    ELSE <<>>]
  IN [c EXCEPT !.type =
        IF sh[3] = "none"
        THEN [@ EXCEPT !.fields = fields]
        ELSE [@ EXCEPT !.fields = fields] @@ [astNode |-> node]]

AstGroup(kind, sh) == [i \in 1..Len(sh) |-> AstCandidate(i, kind, sh[i])]

\* Merge groups of one kind whose candidates have zero, one or two extension
\* AST nodes.
ExtensionCounts == 0..2

ExtensionShapes == TypeShapes \X ExtensionCounts

ExtensionNode(i, j) == [node |-> "extension", from |-> i, index |-> j]

ExtensionGroup(kind, sh) ==
  [i \in 1..Len(sh) |->
     LET c == MkCandidate(i, kind, "Foo", sh[i][1], None, <<>>,
                          <<[name |-> "bar", type |-> String]>>, <<"A">>)
     IN [c EXCEPT !.type.extensionASTNodes =
           [items |-> [j \in 1..sh[i][2] |-> ExtensionNode(i, j)]]]]

\* Options of the input object merges.
InputOptions ==
  {[DefaultOptions EXCEPT !.inputFieldConfigMerger = m, !.strictValidation = s]
     : m \in {None, "custom"}, s \in BOOLEAN}

FieldOptions ==
  {[DefaultOptions EXCEPT !.useNonNullableFieldOnConflict = u, !.strictValidation = s]
     : u \in {None, "true", "false"}, s \in BOOLEAN}

----------------------------------------------------------------------------
\* The state machine: a merge group is given, mergeCandidates runs once.

\* The HTTP transport's executor for one subgraph (getSubgraphExecutor with
\* subscriptions configured), just built.  subscriptionsExecutor is 0 while it
\* is the function that resolves the executor on its first call, else the
\* resolved executor; executors are numbered by the getTransportExecutor call
\* that returned them.  callsAtDispose remembers how many executors had been
\* requested when the hybrid executor was disposed.
TransportBuilt(disposable) ==
  [subscriptionsExecutor |-> 0,
   getTransportExecutorCalls |-> 0,
   pending |-> {}, resolved |-> {}, disposed |-> {},
   disposable |-> disposable,
   httpRequests |-> 0, httpDisposed |-> FALSE,
   requests |-> 0, hybridDisposed |-> FALSE, callsAtDispose |-> 0]

\* One useHmacUpstreamSignature plugin instance, just created.  key is key$:
\* "undefined", "promise" (an import that has not resolved) or "CryptoKey".
\* executions are the onSubgraphExecute calls made, each with how far it got.
SignerCreated ==
  [key |-> "undefined",
   createCryptoKeyCalls |-> 0,
   executions |-> <<>>]

\* One useHmacSignatureValidation plugin instance, just created: its own
\* key$ and the onParams calls made, each with how far it got.
ValidatorCreated ==
  [key |-> "undefined",
   createCryptoKeyCalls |-> 0,
   requests |-> <<>>]

\* The Prometheus plugin about to be set up with pluginOptions.labels:
\* fetchLabelNames is the label-name list of the fetch-duration histogram,
\* fetchLabels the names of the labels filled for the last fetch.
PrometheusWith(labels) ==
  [labels |-> labels,
   stage |-> "options",
   fetchLabelNames |-> <<>>,
   fetchLabels |-> <<>>]

\* pluginOptions.labels left out
NoLabels == [kind |-> "undefined"]

\* the other components, not in use during a merge
ComponentsIdle ==
  /\ transport = TransportBuilt(FALSE)
  /\ signer = SignerCreated
  /\ validator = ValidatorCreated
  /\ prometheus = PrometheusWith(NoLabels)

InitWith(options) ==
  /\ typeName = "Foo"
  /\ typeMergingOptions \in options
  /\ result = NoResult
  /\ pc = "ready"
  /\ ComponentsIdle

Init ==
  /\ \E n \in 0..MaxCands : \E sh \in [1..n -> KindShapes] :
       candidates = KindGroup(sh)
  /\ InitWith({DefaultOptions, [DefaultOptions EXCEPT !.typeCandidateMerger = "custom"]})

InitProfiles ==
  /\ \E n \in 1..MaxCands : \E kind \in Kinds : \E sh \in [1..n -> ProfileShapes] :
       candidates = ProfileGroup(kind, sh)
  /\ InitWith({DefaultOptions})

InitFields ==
  /\ \E n \in 1..MaxFieldCands : \E kind \in {"object", "interface", "input"} :
       \E sh \in [1..n -> FieldShapes] :
         candidates = FieldGroup(kind, sh)
  /\ InitWith(FieldOptions)

InitScalars ==
  /\ \E n \in 1..MaxCands : \E sh \in [1..n -> ScalarShapes] :
       candidates = ScalarGroup(sh)
  /\ InitWith({DefaultOptions})

InitSingle ==
  /\ \E sh \in SingleShapes : candidates = SingleGroup(sh)
  /\ InitWith(FieldOptions)

InitEnums ==
  /\ \E n \in 1..MaxFieldCands : \E sh \in [1..n -> ProfileShapes] :
       candidates = ProfileGroup("enum", sh)
  /\ InitWith({DefaultOptions, [DefaultOptions EXCEPT !.enumValueConfigMerger = "custom"]})

InitValidation ==
  /\ \E n \in 1..MaxFieldCands : \E kind \in {"object", "interface"} :
       \E sh \in [1..n -> FieldShapes] :
         candidates = FieldGroup(kind, sh)
  /\ InitWith(ValidationOptions)

InitAst ==
  /\ \E n \in 1..MaxFieldCands : \E kind \in {"object", "interface", "input"} :
       \E sh \in [1..n -> AstShapes] :
         candidates = AstGroup(kind, sh)
  /\ InitWith({DefaultOptions})

InitExtensions ==
  /\ \E n \in 1..MaxCands : \E kind \in Kinds : \E sh \in [1..n -> ExtensionShapes] :
       candidates = ExtensionGroup(kind, sh)
  /\ InitWith({DefaultOptions})

InitInputs ==
  /\ \E n \in 1..MaxFieldCands : \E sh \in [1..n -> FieldShapes] :
       candidates = FieldGroup("input", sh)
  /\ InitWith(InputOptions)

\* Mutation of callerCandidates: the canonical candidate is moved to the end
\* of the caller's array in place (splice and push).
callerCandidatesSpliced(cands, options) ==
  LET ordered == orderedTypeCandidates(cands, options)
  IN IF categoryMismatch(cands) \/ ~ordered.ok THEN cands ELSE ordered.val

\* The caller's array after the call.  Every write of the merge goes to an
\* object the call allocated: filter, concat and map return new arrays (the
\* parameter `candidates` is rebound, not written), push is applied to plucked
\* arrays and to the per-name lists, Object.assign to a new {}, and a relaxed
\* field is a spread copy.
callerCandidates(cands, options) == cands

MergeCandidates ==
  /\ pc = "ready"
  /\ LET merged == mergeCandidates(typeName, candidates, typeMergingOptions)
     IN result' =
          IF merged.ok
          THEN [status |-> "returned", type |-> merged.val, error |-> NoError,
                calls |-> merged.calls]
          ELSE [status |-> "thrown", type |-> NoType, error |-> merged.err,
                calls |-> merged.calls]
  /\ pc' = "done"
  /\ candidates' = callerCandidates(candidates, typeMergingOptions)
  /\ UNCHANGED <<typeName, typeMergingOptions,
                 transport, signer, validator, prometheus>>

Next == MergeCandidates

----------------------------------------------------------------------------
\* The HTTP transport: hybridExecutor and its disposal.

\* no merge is running
MergeIdle ==
  /\ typeName = "Foo"
  /\ candidates = <<>>
  /\ typeMergingOptions = DefaultOptions
  /\ result = NoResult
  /\ pc = "idle"

mergeVars == <<typeName, candidates, typeMergingOptions, result, pc>>

InitTransport ==
  /\ MergeIdle
  /\ prometheus = PrometheusWith(NoLabels)
  /\ signer = SignerCreated
  /\ validator = ValidatorCreated
  /\ \E disposable \in BOOLEAN : transport = TransportBuilt(disposable)

\* hybridExecutor, operationType other than 'subscription': httpExecutor
HttpRequest ==
  /\ transport.requests < MaxRequests
  /\ transport' = [transport EXCEPT !.requests = @ + 1, !.httpRequests = @ + 1]
  /\ UNCHANGED <<mergeVars, signer, validator, prometheus>>

\* hybridExecutor, a subscription while subscriptionsExecutor is still the
\* resolving function: getTransportExecutor is called; mapMaybePromise runs
\* the callback at once for a plain value, later for a promise
SubscriptionRequestResolving ==
  /\ transport.requests < MaxRequests
  /\ transport.subscriptionsExecutor = 0
  /\ \E async \in BOOLEAN :
       LET executor == transport.getTransportExecutorCalls + 1
       IN transport' =
            IF async
            THEN [transport EXCEPT !.requests = @ + 1,
                                   !.getTransportExecutorCalls = executor,
                                   !.pending = @ \cup {executor}]
            ELSE [transport EXCEPT !.requests = @ + 1,
                                   !.getTransportExecutorCalls = executor,
                                   !.resolved = @ \cup {executor},
                                   !.subscriptionsExecutor = executor]
  /\ UNCHANGED <<mergeVars, signer, validator, prometheus>>

\* hybridExecutor, a subscription after subscriptionsExecutor was replaced
SubscriptionRequestResolved ==
  /\ transport.requests < MaxRequests
  /\ transport.subscriptionsExecutor # 0
  /\ transport' = [transport EXCEPT !.requests = @ + 1]
  /\ UNCHANGED <<mergeVars, signer, validator, prometheus>>

\* the promise of getTransportExecutor resolves:
\* subscriptionsExecutor = resolvedSubscriptionsExecutor
ResolveSubscriptionsExecutor ==
  /\ \E executor \in transport.pending :
       transport' = [transport EXCEPT !.pending = @ \ {executor},
                                      !.resolved = @ \cup {executor},
                                      !.subscriptionsExecutor = executor]
  /\ UNCHANGED <<mergeVars, signer, validator, prometheus>>

\* Promise.all([dispose(httpExecutor),
\*              isDisposable(subscriptionsExecutor) && dispose(subscriptionsExecutor)])
DisposeHybridExecutor ==
  /\ ~transport.hybridDisposed
  /\ transport' =
       [transport EXCEPT !.hybridDisposed = TRUE,
                         !.callsAtDispose = transport.getTransportExecutorCalls,
                         !.httpDisposed = TRUE,
                         !.disposed =
                           IF transport.subscriptionsExecutor # 0 /\ transport.disposable
                           THEN @ \cup {transport.subscriptionsExecutor}
                           ELSE @]
  /\ UNCHANGED <<mergeVars, signer, validator, prometheus>>

NextTransport ==
  \/ HttpRequest
  \/ SubscriptionRequestResolving
  \/ SubscriptionRequestResolved
  \/ ResolveSubscriptionsExecutor
  \/ DisposeHybridExecutor

SpecTransport == InitTransport /\ [][NextTransport]_vars

----------------------------------------------------------------------------
\* The HMAC plugins: useHmacUpstreamSignature.

\* key$ ||= createCryptoKey(...) as seen one tick later with the import
\* never stored before it resolves
keyOrCreateOnResolve(key, async) ==
  IF key = "undefined" /\ ~async THEN "CryptoKey" ELSE key

\* key$ ||= createCryptoKey(...): an unset key$ takes what createCryptoKey
\* returns, a promise or the key; a set one is kept
keyOrCreate(key, async) ==
  IF key = "undefined"
  THEN IF async THEN "promise" ELSE "CryptoKey"
  ELSE key

InitSigner ==
  /\ MergeIdle
  /\ prometheus = PrometheusWith(NoLabels)
  /\ transport = TransportBuilt(FALSE)
  /\ validator = ValidatorCreated
  /\ signer = SignerCreated

\* the serialized execution requests (serializeExecutionRequest) and secrets
Bodies == {"a", "b"}
Secrets == {"s1", "s2"}
secret == "s1"

\* crypto.subtle.sign('HMAC', key, content): determined by key and content
hmac(k, content) == <<k, content>>

\* onSubgraphExecute, shouldSign false: only the debug log
OnSubgraphExecuteSkip ==
  /\ Len(signer.executions) < MaxExecutions
  /\ \E body \in Bodies :
       signer' = [signer EXCEPT !.executions =
                    Append(@, [shouldSign |-> FALSE, body |-> body,
                               stage |-> "skipped", extension |-> <<>>])]
  /\ UNCHANGED <<mergeVars, transport, validator, prometheus>>

\* onSubgraphExecute, shouldSign true, up to handleMaybePromise on the key:
\* with a key in hand the callback runs at once and starts signing
OnSubgraphExecuteSign ==
  /\ Len(signer.executions) < MaxExecutions
  /\ \E body \in Bodies, async \in BOOLEAN :
       LET key == keyOrCreate(signer.key, async)
       IN signer' =
            [signer EXCEPT
               !.createCryptoKeyCalls =
                 IF signer.key = "undefined" THEN @ + 1 ELSE @,
               !.key = key,
               !.executions =
                 Append(@, [shouldSign |-> TRUE, body |-> body,
                            stage |-> IF key = "CryptoKey" THEN "signing"
                                      ELSE "awaitingKey",
                            extension |-> <<>>])]
  /\ UNCHANGED <<mergeVars, transport, validator, prometheus>>

\* the import resolved, the callback of one waiting call: key$ = key, then
\* crypto.subtle.sign
KeyImported ==
  /\ \E i \in 1..Len(signer.executions) :
       /\ signer.executions[i].stage = "awaitingKey"
       /\ signer' = [signer EXCEPT !.key = "CryptoKey",
                                    !.executions[i].stage = "signing"]
  /\ UNCHANGED <<mergeVars, transport, validator, prometheus>>

\* the signature of one call is ready: setExecutionRequest with the
\* signature in the extension
Signed ==
  /\ \E i \in 1..Len(signer.executions) :
       /\ signer.executions[i].stage = "signing"
       /\ signer' = [signer EXCEPT
                       !.executions[i].stage = "setExecutionRequest",
                       !.executions[i].extension =
                         hmac(secret, signer.executions[i].body)]
  /\ UNCHANGED <<mergeVars, transport, validator, prometheus>>

NextSigner ==
  \/ OnSubgraphExecuteSkip
  \/ OnSubgraphExecuteSign
  \/ KeyImported
  \/ Signed

SpecSigner == InitSigner /\ [][NextSigner]_vars

----------------------------------------------------------------------------
\* The HMAC plugins: useHmacSignatureValidation.

\* params.extensions?.[extensionName]: not there, the empty string, or the
\* signature some signer made of some serialized params
NoExtension == <<>>
EmptyExtension == <<"">>
Extensions ==
  {NoExtension, EmptyExtension} \cup {hmac(k, b) : k \in Secrets, b \in Bodies}

MissingError == "Missing HMAC signature"
InvalidError == "Invalid HMAC signature"

\* if (!extension)
missingExtension(extension) == extension \in {NoExtension, EmptyExtension}

\* crypto.subtle.verify('HMAC', key, sigBuf, content)
verify(k, signature, content) == signature = hmac(k, content)

\* the callback on the result of verify, never throwing
onVerifiedLenient(request, verified) ==
  [request EXCEPT !.stage = "passed"]

\* the callback on the result of verify: if (!result) throw
onVerified(request, verified) ==
  IF ~verified
  THEN [request EXCEPT !.stage = "rejected", !.error = InvalidError]
  ELSE [request EXCEPT !.stage = "passed"]

InitValidator ==
  /\ MergeIdle
  /\ prometheus = PrometheusWith(NoLabels)
  /\ transport = TransportBuilt(FALSE)
  /\ signer = SignerCreated
  /\ validator = ValidatorCreated

\* onParams of a request without the extension: throws at once
OnParamsMissing ==
  /\ Len(validator.requests) < MaxParams
  /\ \E extension \in Extensions, body \in Bodies :
       /\ missingExtension(extension)
       /\ validator' = [validator EXCEPT !.requests =
                          Append(@, [extension |-> extension, body |-> body,
                                     stage |-> "rejected",
                                     error |-> MissingError])]
  /\ UNCHANGED <<mergeVars, transport, signer, prometheus>>

\* onParams of a request with the extension, up to handleMaybePromise on
\* the key: with a key in hand the callback runs at once and calls verify
OnParamsSigned ==
  /\ Len(validator.requests) < MaxParams
  /\ \E extension \in Extensions, body \in Bodies, async \in BOOLEAN :
       /\ ~missingExtension(extension)
       /\ LET key == keyOrCreate(validator.key, async)
          IN validator' =
               [validator EXCEPT
                  !.createCryptoKeyCalls =
                    IF validator.key = "undefined" THEN @ + 1 ELSE @,
                  !.key = key,
                  !.requests =
                    Append(@, [extension |-> extension, body |-> body,
                               stage |-> IF key = "CryptoKey" THEN "verifying"
                                         ELSE "awaitingKey",
                               error |-> ""])]
  /\ UNCHANGED <<mergeVars, transport, signer, prometheus>>

\* the import resolved, the callback of one waiting request: key$ = key,
\* then crypto.subtle.verify
VerifyKeyImported ==
  /\ \E i \in 1..Len(validator.requests) :
       /\ validator.requests[i].stage = "awaitingKey"
       /\ validator' = [validator EXCEPT !.key = "CryptoKey",
                                          !.requests[i].stage = "verifying"]
  /\ UNCHANGED <<mergeVars, transport, signer, prometheus>>

\* the result of verify for one request
Verified ==
  /\ \E i \in 1..Len(validator.requests) :
       LET request == validator.requests[i]
       IN /\ request.stage = "verifying"
          /\ validator' =
               [validator EXCEPT !.requests[i] =
                  onVerified(request,
                             verify(secret, request.extension, request.body))]
  /\ UNCHANGED <<mergeVars, transport, signer, prometheus>>

NextValidator ==
  \/ OnParamsMissing
  \/ OnParamsSigned
  \/ VerifyKeyImported
  \/ Verified

SpecValidator == InitValidator /\ [][NextValidator]_vars

----------------------------------------------------------------------------
\* The Prometheus plugin: the labels of the fetch-duration histogram.

HeaderNames == {"authorization", "x-request-id"}

\* the lists of header names of at most MaxHeaders entries
HeaderLists == UNION {[1..n -> HeaderNames] : n \in 0..MaxHeaders}

\* fetchRequestHeaders?: boolean | string[]
HeaderOptions ==
  {[kind |-> "undefined"]}
    \cup {[kind |-> "boolean", value |-> b] : b \in BOOLEAN}
    \cup {[kind |-> "array", headers |-> h] : h \in HeaderLists}

LabelOptions ==
  {NoLabels} \cup [fetchRequestHeaders : HeaderOptions,
                   fetchResponseHeaders : HeaderOptions]

\* const { fetchRequestHeaders, fetchResponseHeaders } = pluginOptions.labels ?? {}
labelOption(labels, name) ==
  IF labels = NoLabels THEN [kind |-> "undefined"] ELSE labels[name]

\* if (option): true and every array, the empty one too
truthy(option) ==
  \/ option.kind = "array"
  \/ option.kind = "boolean" /\ option.value

\* the initial array of fetchLabelNames, without the header labels
baseLabelNames == <<"url", "method", "statusCode", "statusText">>

\* the initial array of fetchLabelNames
initialFetchLabelNames ==
  <<"url", "method", "statusCode", "statusText",
    "requestHeaders", "responseHeaders">>

\* fetchLabelNames after the two conditional pushes
fetchLabelNamesFor(labels) ==
  LET withRequest ==
        IF truthy(labelOption(labels, "fetchRequestHeaders"))
        THEN Append(initialFetchLabelNames, "requestHeaders")
        ELSE initialFetchLabelNames
  IN IF truthy(labelOption(labels, "fetchResponseHeaders"))
     THEN Append(withRequest, "responseHeaders")
     ELSE withRequest

\* the labels the histogram's fill function returns for one fetch
fetchLabelsFor(labels) ==
  LET withRequest ==
        IF truthy(labelOption(labels, "fetchRequestHeaders"))
        THEN Append(baseLabelNames, "requestHeaders")
        ELSE baseLabelNames
  IN IF truthy(labelOption(labels, "fetchResponseHeaders"))
     THEN Append(withRequest, "responseHeaders")
     ELSE withRequest

InitPrometheus ==
  /\ MergeIdle
  /\ transport = TransportBuilt(FALSE)
  /\ signer = SignerCreated
  /\ validator = ValidatorCreated
  /\ \E labels \in LabelOptions : prometheus = PrometheusWith(labels)

\* useMeshPrometheus up to getHistogramFromConfig for the fetch histogram
RegisterFetchHistogram ==
  /\ prometheus.stage = "options"
  /\ prometheus' = [prometheus EXCEPT
                      !.stage = "registered",
                      !.fetchLabelNames = fetchLabelNamesFor(prometheus.labels)]
  /\ UNCHANGED <<mergeVars, transport, signer, validator>>

\* one fetch is observed: the fill function throws without a request
\* method, else returns the labels
ObserveFetch ==
  /\ prometheus.stage \in {"registered", "observed"}
  /\ \E hasMethod \in BOOLEAN :
       prometheus' = [prometheus EXCEPT
                        !.stage = "observed",
                        !.fetchLabels =
                          IF hasMethod THEN fetchLabelsFor(prometheus.labels)
                          ELSE <<>>]
  /\ UNCHANGED <<mergeVars, transport, signer, validator>>

NextPrometheus ==
  \/ RegisterFetchHistogram
  \/ ObserveFetch

SpecPrometheus == InitPrometheus /\ [][NextPrometheus]_vars

Spec == Init /\ [][Next]_vars
SpecProfiles == InitProfiles /\ [][Next]_vars
SpecFields == InitFields /\ [][Next]_vars
SpecScalars == InitScalars /\ [][Next]_vars
SpecSingle == InitSingle /\ [][Next]_vars
SpecValidation == InitValidation /\ [][Next]_vars
SpecInputs == InitInputs /\ [][Next]_vars
SpecAst == InitAst /\ [][Next]_vars
SpecExtensions == InitExtensions /\ [][Next]_vars
SpecMaps == (InitFields \/ InitEnums) /\ [][Next]_vars

----------------------------------------------------------------------------
\* Vocabulary of the properties.

Done == pc = "done"
Returned == Done /\ result.status = "returned"
Thrown == Done /\ result.status = "thrown"

Indices == 1..Len(candidates)

Homogeneous == \A i \in Indices : candidates[i].type.kind = candidates[1].type.kind

GroupKind == IF Len(candidates) = 0 THEN None ELSE candidates[1].type.kind

\* the candidates that mark the type canonical
Marked ==
  {i \in Indices :
     /\ candidates[i].transformedSubschema.isConfig
     /\ candidates[i].transformedSubschema.canonical}

\* the place of a candidate in the input list
PositionOf(c) == CHOOSE i \in Indices : candidates[i].subschema = c.subschema

PairwiseDistinct ==
  \A i, j \in Indices : i # j => candidates[i].subschema # candidates[j].subschema

\* the canonical candidate when at most one is marked, and the resolved order:
\* input order with the canonical candidate moved to the end
CanonicalIndex == IF Marked # {} THEN CHOOSE i \in Marked : TRUE ELSE Len(candidates)
Rank(i) == IF i = CanonicalIndex THEN Len(candidates) + 1 ELSE i
LastOf(S) == CHOOSE i \in S : \A j \in S : Rank(j) <= Rank(i)

CategoryMismatchError ==
  [message |-> "Cannot merge different type categories into common type",
   name |-> <<typeName>>]
MultipleCanonicalError(name) ==
  [message |-> "Multiple canonical definitions for", name |-> name]

DefaultMergers ==
  /\ typeMergingOptions.typeCandidateMerger = None
  /\ typeMergingOptions.typeDescriptionsMerger = None
  /\ typeMergingOptions.fieldConfigMerger = None
  /\ typeMergingOptions.inputFieldConfigMerger = None
  /\ typeMergingOptions.enumValueConfigMerger = None

----------------------------------------------------------------------------
\* C1: a merge group in which some candidate's kind differs from the first
\* candidate's fails with the category-mismatch error naming the type, returns
\* no type, and no stage (canonical resolution, merger, validator) has run -
\* also when the group marks the type canonical several times.
C1_CategoryMismatchFirst ==
  (Done /\ ~Homogeneous) =>
    /\ result.status = "thrown"
    /\ result.type = NoType
    /\ result.error = CategoryMismatchError
    /\ result.calls = <<>>

C1_Witness ==
  /\ Done /\ ~Homogeneous
  /\ Cardinality(Marked) >= 2
  /\ candidates[1].type.kind = "scalar"
  /\ result.error = CategoryMismatchError

\* C2: with the default type-candidate resolver, a group of one kind in which
\* two or more candidates mark the type canonical fails with the
\* multiple-canonical error naming the type, and no type is returned.
C2_MultipleCanonicalFails ==
  (/\ Done /\ Homogeneous
   /\ typeMergingOptions.typeCandidateMerger = None
   /\ Cardinality(Marked) >= 2) =>
    /\ result.status = "thrown"
    /\ result.type = NoType
    /\ result.error = MultipleCanonicalError(<<typeName>>)

C2_Witness ==
  /\ Done /\ Homogeneous
  /\ typeMergingOptions.typeCandidateMerger = None
  /\ GroupKind = "enum"
  /\ Marked = {1, 3}
  /\ result.error = MultipleCanonicalError(<<typeName>>)

\* C3: for a non-empty list of pairwise distinct candidates with at most one
\* marked canonical, the default ordering returns the same candidates (same
\* length, none lost or duplicated), the canonical candidate (the marked one,
\* else the last input element) last, the others in their input order.
C3_DefaultOrdering ==
  (/\ Len(candidates) > 0 /\ PairwiseDistinct /\ Cardinality(Marked) <= 1) =>
    LET ordered == orderedTypeCandidates(candidates, DefaultOptions)
        n == Len(candidates)
    IN /\ ordered.ok
       /\ Len(ordered.val) = n
       /\ {ordered.val[i] : i \in 1..n} = {candidates[i] : i \in 1..n}
       /\ \A i, j \in 1..n : i # j => ordered.val[i] # ordered.val[j]
       /\ ordered.val[n] = candidates[CanonicalIndex]
       /\ \A i, j \in 1..(n - 1) :
            i < j => PositionOf(ordered.val[i]) < PositionOf(ordered.val[j])

C3_Witness ==
  /\ Returned /\ Homogeneous
  /\ typeMergingOptions.typeCandidateMerger = None
  /\ Len(candidates) = 3 /\ Marked = {1}
  /\ LET ordered == orderedTypeCandidates(candidates, DefaultOptions)
     IN ordered.ok /\ [i \in 1..3 |-> ordered.val[i].subschema] = <<2, 3, 1>>

\* C4: with the default mergers the merged description is the canonical
\* candidate's: the marked candidate's wherever it stands in the list, the
\* last input candidate's when none is marked.
C4_DescriptionOfCanonical ==
  (Returned /\ DefaultMergers) =>
    /\ result.type.kind = GroupKind
    /\ result.type.description =
         IF Marked # {}
         THEN candidates[CHOOSE i \in Marked : TRUE].type.description
         ELSE candidates[Len(candidates)].type.description

C4_Witness ==
  /\ Returned /\ DefaultMergers
  /\ Len(candidates) = 3 /\ Marked = {1}
  /\ candidates[1].type.description = "a"
  /\ candidates[3].type.description = "c"
  /\ result.type.description = "a"

\* C5: the merged extensions have exactly the keys of all candidates'
\* extensions, each with the value of the last candidate, in resolved order,
\* whose extensions have the key.
ExtensionKeys(i) == DOMAIN candidates[i].type.extensions

C5_ExtensionsShallowMerge ==
  (Returned /\ typeMergingOptions.typeCandidateMerger = None) =>
    /\ DOMAIN result.type.extensions = UNION {ExtensionKeys(i) : i \in Indices}
    /\ \A k \in DOMAIN result.type.extensions :
         result.type.extensions[k] =
           candidates[LastOf({i \in Indices : k \in ExtensionKeys(i)})].type.extensions[k]

C5_Witness ==
  /\ Returned /\ typeMergingOptions.typeCandidateMerger = None
  /\ Len(candidates) = 2 /\ Marked = {1}
  /\ candidates[1].type.extensions = [x |-> 1, y |-> 2]
  /\ candidates[2].type.extensions = [y |-> 3, z |-> 4]
  /\ result.type.extensions = [x |-> 1, y |-> 2, z |-> 4]

----------------------------------------------------------------------------
\* Fields of the merge group.

Defines(i, f) ==
  \E j \in 1..Len(candidates[i].type.fields) : candidates[i].type.fields[j].name = f

FieldConfigOf(i, f) ==
  LET fields == candidates[i].type.fields
  IN fields[CHOOSE j \in 1..Len(fields) : fields[j].name = f].config

FieldNames ==
  UNION {{candidates[i].type.fields[j].name : j \in 1..Len(candidates[i].type.fields)}
           : i \in Indices}

Defining(f) == {i \in Indices : Defines(i, f)}

\* the candidates defining f that mark it canonical at field level
FieldCanonical(f) ==
  {i \in Defining(f) :
     /\ candidates[i].transformedSubschema.isConfig
     /\ f \in candidates[i].transformedSubschema.fields}

\* the candidates defining f that mark the type, and not f, canonical
TypeCanonical(f) == (Defining(f) \cap Marked) \ FieldCanonical(f)

\* field-canonical, else type-canonical, else the last candidate defining f
Winner(f) ==
  IF FieldCanonical(f) # {} THEN CHOOSE i \in FieldCanonical(f) : TRUE
  ELSE IF TypeCanonical(f) # {} THEN CHOOSE i \in TypeCanonical(f) : TRUE
  ELSE CHOOSE i \in Defining(f) : \A j \in Defining(f) : j <= i

ConflictedFields == {f \in FieldNames : Cardinality(FieldCanonical(f)) >= 2}

ValidatorErrors ==
  {"FieldConsistencyError", "InputFieldConsistencyError", "InputObjectConsistencyError"}

\* C6 (as claimed): whenever two or more candidates defining f mark f
\* canonical at field level, the merge fails with the multiple-canonical error
\* naming "T.f".
C6_Claimed ==
  (/\ Done /\ Homogeneous /\ HasFields(GroupKind) /\ DefaultMergers
   /\ ~typeMergingOptions.strictValidation) =>
    \A f \in ConflictedFields :
      /\ result.status = "thrown"
      /\ result.type = NoType
      /\ result.error = MultipleCanonicalError(<<typeName, f>>)

\* C6 (amended): whenever two or more candidates defining f mark f canonical
\* at field level, the merge fails and returns no type; the error is the
\* multiple-canonical error naming "T.f", unless another failure is reached
\* first: the multiple-canonical error naming T (the type itself is marked
\* canonical several times), the multiple-canonical error naming another
\* field with the same conflict, or a consistency validator's error.
C6_FieldMultipleCanonicalFails ==
  (Done /\ Homogeneous /\ HasFields(GroupKind) /\ DefaultMergers
   /\ ConflictedFields # {}) =>
    /\ result.status = "thrown"
    /\ result.type = NoType
    /\ \/ \E f \in ConflictedFields :
            result.error = MultipleCanonicalError(<<typeName, f>>)
       \/ /\ Cardinality(Marked) >= 2
          /\ result.error = MultipleCanonicalError(<<typeName>>)
       \/ /\ typeMergingOptions.strictValidation
          /\ result.error.message \in ValidatorErrors
    /\ (/\ Cardinality(Marked) <= 1
        /\ ~typeMergingOptions.strictValidation
        /\ Cardinality(ConflictedFields) = 1) =>
         \A f \in ConflictedFields :
           result.error = MultipleCanonicalError(<<typeName, f>>)

C6_Witness ==
  /\ Thrown /\ GroupKind = "input" /\ DefaultMergers
  /\ Marked = {} /\ ~typeMergingOptions.strictValidation
  /\ ConflictedFields = {"baz"}
  /\ FieldNames = {"bar", "baz"}
  /\ result.error = MultipleCanonicalError(<<typeName, "baz">>)

\* C7 (as claimed): with useNonNullableFieldOnConflict = true, a field that
\* is nullable in some candidate and non-nullable in another is merged to the
\* nullable form of the winning candidate's field.
C7_Claimed ==
  (/\ Returned /\ GroupKind \in {"object", "interface"} /\ DefaultMergers
   /\ typeMergingOptions.useNonNullableFieldOnConflict = "true") =>
    \A f \in FieldNames :
      (/\ \E i \in Defining(f) : isNullableType(FieldConfigOf(i, f).type)
       /\ \E i \in Defining(f) : ~isNullableType(FieldConfigOf(i, f).type)) =>
        /\ MapHas(result.type.fields, f)
        /\ MapGet(result.type.fields, f) =
             [FieldConfigOf(Winner(f), f) EXCEPT !.type = getNullableType(@)]

\* C8: with useNonNullableFieldOnConflict false or absent, every merged object
\* or interface field is exactly the winning candidate's field config
\* (field-canonical, else type-canonical, else the last defining candidate),
\* its type unchanged.
C8_NoRelaxationWithoutFlag ==
  (/\ Returned /\ GroupKind \in {"object", "interface"} /\ DefaultMergers
   /\ typeMergingOptions.useNonNullableFieldOnConflict \in {None, "false"}) =>
    \A f \in FieldNames :
      /\ MapHas(result.type.fields, f)
      /\ MapGet(result.type.fields, f) = FieldConfigOf(Winner(f), f)

C8_Witness ==
  /\ Returned /\ GroupKind = "object" /\ DefaultMergers
  /\ typeMergingOptions.useNonNullableFieldOnConflict = None
  /\ Len(candidates) = 2
  /\ \A i \in Indices : candidates[i].transformedSubschema.isConfig
  /\ Defining("bar") = {1, 2}
  /\ FieldConfigOf(1, "bar").type = String
  /\ FieldConfigOf(2, "bar").type = NonNullString
  /\ MapGet(result.type.fields, "bar") = [type |-> NonNullString, from |-> 2]

----------------------------------------------------------------------------
\* C9: the merged interfaces of an object or interface hold one entry per
\* interface name implemented by any candidate, and the entry is the interface
\* object of the last candidate, in resolved order, implementing that name.
InterfaceNames(i) ==
  {candidates[i].type.interfaces[j].name : j \in 1..Len(candidates[i].type.interfaces)}

C9_InterfacesUnionByName ==
  (/\ Returned /\ GroupKind \in {"object", "interface"}
   /\ typeMergingOptions.typeCandidateMerger = None) =>
    LET interfaces == result.type.interfaces
    IN /\ \A a, b \in 1..Len(interfaces) :
            a # b => interfaces[a].name # interfaces[b].name
       /\ {interfaces[a].name : a \in 1..Len(interfaces)} =
            UNION {InterfaceNames(i) : i \in Indices}
       /\ \A a \in 1..Len(interfaces) :
            interfaces[a].from =
              candidates[LastOf({i \in Indices :
                                   interfaces[a].name \in InterfaceNames(i)})].subschema

C9_Witness ==
  /\ Returned /\ GroupKind = "object"
  /\ typeMergingOptions.typeCandidateMerger = None
  /\ Len(candidates) = 2 /\ Marked = {1}
  /\ InterfaceNames(1) = {"A"}
  /\ InterfaceNames(2) = {"A", "B"}
  /\ result.type.interfaces =
       <<[name |-> "A", from |-> 1], [name |-> "B", from |-> 2]>>

\* C10: the merged enum values are the union of the candidates' value names;
\* a value's config is that of the candidate marking the enum canonical when
\* that candidate defines the value, else that of the last candidate defining
\* it.
ValueNames(i) ==
  {candidates[i].type.values[j].name : j \in 1..Len(candidates[i].type.values)}

C10_EnumValuesUnion ==
  (Returned /\ GroupKind = "enum" /\ DefaultMergers) =>
    LET values == result.type.values
    IN /\ Len(values) = Cardinality(MapKeySet(values))
       /\ MapKeySet(values) = UNION {ValueNames(i) : i \in Indices}
       /\ \A v \in MapKeySet(values) :
            LET defining == {i \in Indices : v \in ValueNames(i)}
                from == IF defining \cap Marked # {}
                        THEN CHOOSE i \in defining \cap Marked : TRUE
                        ELSE CHOOSE i \in defining : \A j \in defining : j <= i
            IN MapGet(values, v) = [value |-> v, from |-> candidates[from].subschema]

C10_Witness ==
  /\ Returned /\ GroupKind = "enum" /\ DefaultMergers
  /\ Len(candidates) = 3 /\ Marked = {1}
  /\ ValueNames(1) = {"A", "B"}
  /\ ValueNames(2) = {"A", "C"}
  /\ ValueNames(3) = {}
  /\ MapKeySet(result.type.values) = {"A", "B", "C"}
  /\ MapGet(result.type.values, "A") = [value |-> "A", from |-> 1]
  /\ MapGet(result.type.values, "C") = [value |-> "C", from |-> 2]

\* ---- scalar types ----

\* the candidates whose type has a specifiedByURL
WithURL == {i \in Indices : candidates[i].type.specifiedByURL # None}

\* the first of a set of candidates in input order
FirstOf(S) == CHOOSE i \in S : \A j \in S : i <= j

\* C11 as claimed: the merged scalar's specifiedByURL is the first non-null
\* specifiedByURL in the original input order (the order before a canonical
\* candidate is moved to the end), and absent only when no candidate has one.
C11_Claimed ==
  (Returned /\ GroupKind = "scalar") =>
    result.type.specifiedByURL =
      IF WithURL = {} THEN None
      ELSE candidates[FirstOf(WithURL)].type.specifiedByURL

\* C18: the merged scalar's serialize, parseValue and parseLiteral are the
\* three functions of one candidate, the last of the resolved list: the
\* canonical candidate if one is marked, else the last candidate of the input.
C18_ScalarFunctionsOfLast ==
  (Returned /\ GroupKind = "scalar" /\ DefaultMergers) =>
    LET last == IF Marked = {} THEN Len(candidates) ELSE CanonicalIndex
    IN /\ result.type.serialize = candidates[last].type.serialize
       /\ result.type.parseValue = candidates[last].type.parseValue
       /\ result.type.parseLiteral = candidates[last].type.parseLiteral
       /\ result.type.serialize.from = candidates[last].subschema
       /\ result.type.parseValue.from = candidates[last].subschema
       /\ result.type.parseLiteral.from = candidates[last].subschema

C18_Witness ==
  /\ Returned /\ GroupKind = "scalar"
  /\ Len(candidates) = 3
  /\ Marked = {2}
  /\ result.type.serialize.from = 2
  /\ result.type.parseLiteral.from = 2

\* ---- a merge group of one candidate ----

\* a type's field map, or an enum's value map, as the merge emits it
ConfigMapOf(entries) ==
  [j \in 1..Len(entries) |-> [k |-> entries[j].name, v |-> entries[j].config]]

\* C12: for every kind and every setting of useNonNullableFieldOnConflict,
\* merging exactly one candidate raises no error and returns a type
\* equivalent to the candidate's: the same fields, values and members, each
\* config identical (nullability included), the same interfaces, description
\* and extensions.
C12_SingleCandidateIdentity ==
  (Done /\ Len(candidates) = 1 /\ DefaultMergers) =>
    LET c == candidates[1].type
        t == result.type
    IN /\ result.status = "returned"
       /\ result.error = NoError
       /\ t.kind = c.kind
       /\ t.name = c.name
       /\ t.description = c.description
       /\ t.extensions = c.extensions
       /\ t.fields = ConfigMapOf(c.fields)
       /\ t.values = ConfigMapOf(c.values)
       /\ t.interfaces = c.interfaces
       /\ t.types = c.types
       /\ c.kind = "scalar" =>
            /\ t.serialize = c.serialize
            /\ t.parseValue = c.parseValue
            /\ t.parseLiteral = c.parseLiteral
            /\ t.specifiedByURL = c.specifiedByURL

C12_Witness ==
  /\ Returned /\ Len(candidates) = 1
  /\ GroupKind = "object"
  /\ typeMergingOptions.useNonNullableFieldOnConflict = "true"
  /\ candidates[1].transformedSubschema = Config(TRUE, {"bar"})
  /\ result.type.fields =
       <<[k |-> "baz", v |-> [type |-> String, from |-> 1]],
         [k |-> "bar", v |-> [type |-> NonNullString, from |-> 1]]>>
  /\ result.type.interfaces = <<[name |-> "A", from |-> 1], [name |-> "B", from |-> 1]>>
  /\ result.type.description = "b"
  /\ result.type.extensions = [y |-> 3, z |-> 4]

\* ---- errors ----

MergerStages == {"fieldConfigMerger", "inputFieldConfigMerger"}
FieldValidatorStages == {"validateFieldConsistency", "validateInputFieldConsistency"}

\* the error a stage raises, by the stage's entry in the call trace
StageError(call) ==
  CASE call[1] = "typeCandidateMerger" -> MultipleCanonicalError(<<typeName>>)
    [] call[1] \in MergerStages -> MultipleCanonicalError(<<typeName, call[2]>>)
    [] call[1] = "validateFieldConsistency" ->
         [message |-> "FieldConsistencyError", name |-> <<typeName, call[2]>>]
    [] call[1] = "validateInputFieldConsistency" ->
         [message |-> "InputFieldConsistencyError", name |-> <<typeName, call[2]>>]
    [] call[1] = "validateInputObjectConsistency" ->
         [message |-> "InputObjectConsistencyError", name |-> <<typeName>>]
    [] OTHER -> NoError

\* the type of field f differs between the candidates defining it
Diverging(f) ==
  \E i, j \in Defining(f) : FieldConfigOf(i, f).type # FieldConfigOf(j, f).type

\* C13: an error raised by a stage (canonical ordering, a field or input
\* field merger, a validator) leaves mergeCandidates as the error of the
\* call: no type is returned, the failing stage is the last one that ran (no
\* later field is merged or validated), every stage that ran before it ran
\* once and did not fail, and a merge that returns a type had no failing stage.
C13_ErrorsPropagate ==
  (Done /\ HasFields(GroupKind) /\ DefaultMergers) =>
    LET calls == result.calls
        strict == typeMergingOptions.strictValidation
    IN /\ \A p, q \in 1..Len(calls) : calls[p] = calls[q] => p = q
       /\ \A p \in 1..Len(calls) - 1 :
            /\ calls[p][1] = "typeCandidateMerger" => Cardinality(Marked) <= 1
            /\ calls[p][1] \in MergerStages => calls[p][2] \notin ConflictedFields
            /\ (strict /\ calls[p][1] \in FieldValidatorStages) =>
                 ~Diverging(calls[p][2])
       /\ result.status = "thrown" =>
            /\ result.type = NoType
            /\ Len(calls) > 0
            /\ result.error = StageError(Last(calls))
            /\ result.error # NoError
       /\ result.status = "returned" =>
            /\ result.error = NoError
            /\ Cardinality(Marked) <= 1
            /\ ConflictedFields = {}
            /\ strict => \A f \in FieldNames : ~Diverging(f)
            /\ \A f \in FieldNames : \E p \in 1..Len(calls) :
                 calls[p][1] \in MergerStages /\ calls[p][2] = f

\* the merger of the first field fails: the second field is never merged
C13_Witness ==
  /\ Thrown /\ GroupKind = "object" /\ DefaultMergers
  /\ FieldNames = {"bar", "baz"}
  /\ ConflictedFields = {"bar", "baz"}
  /\ result.error = MultipleCanonicalError(<<typeName, "bar">>)
  /\ Last(result.calls) = <<"fieldConfigMerger", "bar">>
  /\ \A p \in 1..Len(result.calls) :
       Len(result.calls[p]) >= 2 => result.calls[p][2] # "baz"

\* the messages of the errors that signal missing required data
RequiredDataMessages ==
  {"Last canonical is required", "First canonical is required",
   "Final field is required", "Field config is required",
   "Last candidate is required", "Input field config candidate is required"}

\* C14 as claimed: mergeCandidates with an empty candidate list fails with an
\* error that signals missing required data; it returns no type, and the
\* error is neither the category mismatch nor a multiple-canonical error.
C14_Claimed ==
  (Done /\ Len(candidates) = 0) =>
    /\ result.status = "thrown"
    /\ result.type = NoType
    /\ result.error.message \in RequiredDataMessages
    /\ result.error # CategoryMismatchError
    /\ result.error.message # "Multiple canonical definitions for"

\* ---- which candidate supplies a field ----

MergedField(f) == MapGet(result.type.fields, f)

\* the merged config is the candidate's config, or, for an object or interface
\* type merged with useNonNullableFieldOnConflict, that config made nullable
UpToRelaxation(merged, config) ==
  \/ merged = config
  \/ /\ GroupKind \in {"object", "interface"}
     /\ typeMergingOptions.useNonNullableFieldOnConflict = "true"
     /\ merged = [config EXCEPT !.type.nonNull = FALSE]

\* C15: under the default field mergers, when exactly one candidate defining
\* f marks f canonical at field level, the merged config of f is that
\* candidate's config (up to nullability relaxation), also when another
\* candidate marks the whole type canonical.
C15_FieldCanonicalWins ==
  (Returned /\ HasFields(GroupKind) /\ DefaultMergers) =>
    \A f \in FieldNames : \A i \in FieldCanonical(f) :
      FieldCanonical(f) = {i} =>
        UpToRelaxation(MergedField(f), FieldConfigOf(i, f))

C15_Witness ==
  /\ Returned /\ GroupKind = "object" /\ DefaultMergers
  /\ Len(candidates) = 2
  /\ FieldCanonical("bar") = {1}
  /\ Marked = {2} /\ Defines(2, "bar")
  /\ FieldConfigOf(1, "bar").type # FieldConfigOf(2, "bar").type
  /\ MergedField("bar") = FieldConfigOf(1, "bar")

\* C16: under the default field mergers, when no candidate marks f canonical
\* at field level and exactly one candidate marks the type canonical, the
\* merged config of every field f that candidate defines is its config (up to
\* nullability relaxation), wherever the candidate stands in the input.
C16_TypeCanonicalWins ==
  (Returned /\ HasFields(GroupKind) /\ DefaultMergers) =>
    \A f \in FieldNames : \A i \in Marked :
      (FieldCanonical(f) = {} /\ Marked = {i} /\ Defines(i, f)) =>
        UpToRelaxation(MergedField(f), FieldConfigOf(i, f))

C16_Witness ==
  /\ Returned /\ GroupKind = "input" /\ DefaultMergers
  /\ Len(candidates) = 2
  /\ Marked = {1}
  /\ FieldCanonical("bar") = {}
  /\ Defines(2, "bar")
  /\ FieldConfigOf(1, "bar").type # FieldConfigOf(2, "bar").type
  /\ MergedField("bar") = FieldConfigOf(1, "bar")

\* C17: under the default field mergers, when no candidate defining f marks
\* f canonical at field level and none of them marks the type canonical, the
\* merged config of f is the config of the last candidate in input order that
\* defines f (up to nullability relaxation), candidates without a recognized
\* subschema config included.
C17_LastDefinitionWins ==
  (Returned /\ HasFields(GroupKind) /\ DefaultMergers) =>
    \A f \in FieldNames :
      (FieldCanonical(f) = {} /\ Defining(f) \cap Marked = {}) =>
        LET last == CHOOSE i \in Defining(f) : \A j \in Defining(f) : j <= i
        IN UpToRelaxation(MergedField(f), FieldConfigOf(last, f))

C17_Witness ==
  /\ Returned /\ GroupKind = "interface" /\ DefaultMergers
  /\ Len(candidates) = 2
  /\ Marked = {} /\ FieldCanonical("bar") = {}
  /\ candidates[1].transformedSubschema.isConfig
  /\ ~candidates[2].transformedSubschema.isConfig
  /\ FieldConfigOf(1, "bar").type # FieldConfigOf(2, "bar").type
  /\ MergedField("bar") = FieldConfigOf(2, "bar")

\* ---- the keys of the merged maps ----

AllValueNames == UNION {ValueNames(i) : i \in Indices}

\* C19: in every successful merge of object, interface or input object
\* types the keys of the merged field map are the union of the field names
\* of all candidates, each name once and no other name; likewise the keys of
\* the merged value map of an enum merge and the candidates' value names.
C19_KeysAreUnion ==
  Returned =>
    /\ HasFields(GroupKind) =>
         /\ MapKeySet(result.type.fields) = FieldNames
         /\ Len(result.type.fields) = Cardinality(FieldNames)
    /\ GroupKind = "enum" =>
         /\ MapKeySet(result.type.values) = AllValueNames
         /\ Len(result.type.values) = Cardinality(AllValueNames)

\* a field only the first candidate has is in the merged map
C19_Witness ==
  /\ Returned /\ GroupKind = "object"
  /\ Len(candidates) = 2
  /\ Defines(1, "baz") /\ ~Defines(2, "baz")
  /\ Defines(1, "bar") /\ Defines(2, "bar")
  /\ MapKeys(result.type.fields) = <<"bar", "baz">>

\* ---- the field validator ----

\* the first of a set of candidates in the resolved order
FirstRanked(S) == CHOOSE i \in S : \A j \in S : Rank(i) <= Rank(j)

\* C20: in an object or interface merge the field validator is invoked for a
\* field right after that field's merger (the default one or a caller-supplied
\* fieldConfigMerger) has returned, at most once per field and exactly once
\* for every field of a merge that returns; it receives the config the merger
\* returned and all candidates defining the field; when it raises,
\* mergeCandidates raises that error, the validator's call is the last call
\* made and no type, hence no field, is emitted.
C20_ValidatedOnceAfterMerger ==
  (Done /\ GroupKind \in {"object", "interface"}
   /\ typeMergingOptions.typeCandidateMerger = None) =>
    LET calls == result.calls
        Validates(p) == calls[p][1] = "validateFieldConsistency"
        custom == typeMergingOptions.fieldConfigMerger # None
    IN /\ \A p \in 1..Len(calls) : Validates(p) =>
            LET f == calls[p][2]
                config == calls[p][3]
                received == calls[p][4]
            IN /\ p > 1 /\ calls[p - 1] = <<"fieldConfigMerger", f>>
               /\ \A q \in 1..Len(calls) :
                    (Validates(q) /\ calls[q][2] = f) => q = p
               /\ Len(received) = Cardinality(Defining(f))
               /\ {received[k] : k \in 1..Len(received)} =
                    {candidates[i].subschema : i \in Defining(f)}
               /\ IF custom
                  THEN config = FieldConfigOf(FirstRanked(Defining(f)), f)
                  ELSE UpToRelaxation(config, FieldConfigOf(Winner(f), f))
               /\ result.status = "returned" => MergedField(f) = config
               /\ (/\ typeMergingOptions.strictValidation
                   /\ \E i \in Defining(f) : FieldConfigOf(i, f).type # config.type) =>
                    /\ result.status = "thrown"
                    /\ p = Len(calls)
                    /\ result.error =
                         [message |-> "FieldConsistencyError", name |-> <<typeName, f>>]
                    /\ result.type = NoType
       /\ \A p \in 1..Len(calls) - 1 :
            calls[p][1] = "fieldConfigMerger" =>
              Validates(p + 1) /\ calls[p + 1][2] = calls[p][2]
       /\ result.status = "returned" =>
            \A f \in FieldNames : \E p \in 1..Len(calls) :
              Validates(p) /\ calls[p][2] = f
       /\ (result.status = "thrown" /\ result.error.message = "FieldConsistencyError") =>
            Validates(Len(calls))

\* a caller-supplied merger returns, the validator rejects its config
C20_Witness ==
  /\ Thrown /\ GroupKind = "object"
  /\ typeMergingOptions.fieldConfigMerger = "custom"
  /\ typeMergingOptions.strictValidation
  /\ FieldNames = {"bar", "baz"}
  /\ Len(result.calls) = 6
  /\ result.calls[3] = <<"fieldConfigMerger", "baz">>
  /\ result.calls[4][1] = "validateFieldConsistency"
  /\ result.calls[6] =
       <<"validateFieldConsistency", "bar", [type |-> NonNullString, from |-> 2], <<2, 1>>>>
  /\ result.error = [message |-> "FieldConsistencyError", name |-> <<typeName, "bar">>]

\* ---- the input object validator ----

\* C21: in an input object merge over N candidates whose canonical ordering
\* succeeds, the input object validator is invoked exactly once, before any
\* input field merger or input field validator; it receives all N candidates
\* and the tally, which has exactly the field names some candidate defines,
\* each with the number of candidates defining it (between 1 and N); when it
\* raises, no input field is merged or validated.
C21_TallyValidatedFirst ==
  (Done /\ GroupKind = "input" /\ typeMergingOptions.typeCandidateMerger = None
   /\ Cardinality(Marked) <= 1) =>
    LET calls == result.calls
        Validates(p) == calls[p][1] = "validateInputObjectConsistency"
        N == Len(candidates)
    IN /\ Len(calls) >= 3
       /\ Validates(3)
       /\ \A p \in 1..Len(calls) : Validates(p) => p = 3
       /\ calls[1][1] = "typeCandidateMerger" /\ calls[2][1] = "typeDescriptionsMerger"
       /\ LET tally == calls[3][2]
              received == calls[3][3]
          IN /\ MapKeySet(tally) = FieldNames
             /\ Len(tally) = Cardinality(FieldNames)
             /\ \A f \in FieldNames :
                  /\ MapGet(tally, f) = Cardinality(Defining(f))
                  /\ MapGet(tally, f) \in 1..N
             /\ Len(received) = N
             /\ {received[k] : k \in 1..N} = {candidates[i].subschema : i \in Indices}
             /\ (/\ typeMergingOptions.strictValidation
                 /\ \E f \in FieldNames : MapGet(tally, f) # N) =>
                  /\ result.status = "thrown"
                  /\ result.type = NoType
                  /\ result.error =
                       [message |-> "InputObjectConsistencyError", name |-> <<typeName>>]
                  /\ Len(calls) = 3

\* strict validation, a field only one of two candidates defines
C21_Witness ==
  /\ Thrown /\ GroupKind = "input"
  /\ typeMergingOptions.strictValidation
  /\ Len(candidates) = 2
  /\ Len(result.calls) = 3
  /\ result.calls[3] =
       <<"validateInputObjectConsistency",
         <<[k |-> "bar", v |-> 2], [k |-> "baz", v |-> 1]>>, <<1, 2>>>>
  /\ result.error.message = "InputObjectConsistencyError"

\* ---- a caller-supplied typeCandidateMerger ----

\* C22: with a caller-supplied typeCandidateMerger the default canonical
\* resolution does not run: the merge raises no multiple-canonical error for
\* the type however many candidates mark it canonical, the resolved order
\* ends with the candidate the custom function returned and keeps the other
\* candidates in their input order.
C22_CustomMergerBypassesDefault ==
  (Len(candidates) > 0 /\ typeMergingOptions.typeCandidateMerger # None) =>
    LET ordered == orderedTypeCandidates(candidates, typeMergingOptions)
        chosen == customTypeCandidateMerger(candidates).val
        n == Len(candidates)
    IN /\ ordered.ok
       /\ Len(ordered.val) = n
       /\ ordered.val[n] = chosen
       /\ {ordered.val[i] : i \in 1..n} = {candidates[i] : i \in 1..n}
       /\ \A i, j \in 1..(n - 1) :
            i < j => PositionOf(ordered.val[i]) < PositionOf(ordered.val[j])
       /\ (Done /\ Homogeneous) =>
            /\ result.status = "returned"
            /\ result.error # MultipleCanonicalError(<<typeName>>)
            /\ result.calls[1] = <<"typeCandidateMerger">>
            /\ GroupKind \in {"object", "interface"} =>
                 result.type.interfaces = <<[name |-> "A", from |-> chosen.subschema]>>

\* two candidates mark the type canonical, the custom merger picks the third
C22_Witness ==
  /\ Returned /\ GroupKind = "object"
  /\ typeMergingOptions.typeCandidateMerger = "custom"
  /\ Len(candidates) = 3 /\ Marked = {2, 3}
  /\ result.type.interfaces = <<[name |-> "A", from |-> 1]>>
  /\ LET ordered == orderedTypeCandidates(candidates, typeMergingOptions)
     IN [i \in 1..3 |-> ordered.val[i].subschema] = <<2, 3, 1>>

\* ---- the inputs after the call ----

WithAst == {i \in Indices : "astNode" \in DOMAIN candidates[i].type}

\* the merged fields that have an AST node
MergedWithAst ==
  {f \in MapKeySet(result.type.fields) : "astNode" \in DOMAIN MergedField(f)}

\* the field names some merge config that does not mark the type canonical
\* marks canonical
CanonicalNames ==
  {f \in {"bar", "baz"} : \E i \in Indices :
     /\ candidates[i].transformedSubschema.isConfig
     /\ ~candidates[i].transformedSubschema.canonical
     /\ f \in candidates[i].transformedSubschema.fields}

Elements(s) == {s[k] : k \in 1..Len(s)}

\* C24 as claimed: in an object, interface or input object merge, whenever
\* more than one candidate has an AST node and some merged field has an AST
\* node, a trailing pseudo-node with the AST nodes of the merged fields is
\* appended to the nodes to fold; with at most one candidate AST node no
\* pseudo-node is appended.
C24_Claimed ==
  (Returned /\ HasFields(GroupKind) /\ DefaultMergers) =>
    LET astNodes == result.type.astNodes
    IN /\ (Cardinality(WithAst) > 1 /\ MergedWithAst # {}) =>
            /\ Len(astNodes) = Cardinality(WithAst) + 1
            /\ Elements(Last(astNodes).fields) =
                 {MergedField(f).astNode : f \in MergedWithAst}
       /\ Cardinality(WithAst) <= 1 => Len(astNodes) = Cardinality(WithAst)

\* C24 (amended): the nodes to fold are the candidates' AST nodes in resolved
\* order; a trailing pseudo-node is appended exactly when more than one
\* candidate has an AST node and some field name that a merge config not
\* marking the type canonical marks canonical has a merged field with an AST
\* node.  The pseudo-node is a copy of the last candidate node whose fields
\* are the AST nodes of those canonical fields only, not of the whole merged
\* field list.
C24_PseudoNodeForCanonicalFields ==
  (Returned /\ HasFields(GroupKind) /\ DefaultMergers) =>
    LET astNodes == result.type.astNodes
        n == Cardinality(WithAst)
        carried == CanonicalNames \cap MergedWithAst
    IN /\ Len(astNodes) >= n
       /\ {astNodes[k] : k \in 1..n} = {candidates[i].type.astNode : i \in WithAst}
       /\ n > 0 => astNodes[n] = candidates[LastOf(WithAst)].type.astNode
       /\ IF n > 1 /\ carried # {}
          THEN /\ Len(astNodes) = n + 1
               /\ astNodes[n + 1] =
                    [astNodes[n] EXCEPT !.fields = astNodes[n + 1].fields]
               /\ Len(astNodes[n + 1].fields) = Cardinality(carried)
               /\ Elements(astNodes[n + 1].fields) =
                    {MergedField(f).astNode : f \in carried}
          ELSE Len(astNodes) = n

\* the pseudo-node carries the canonical field bar, not the merged field baz
C24_Witness ==
  /\ Returned /\ GroupKind = "object" /\ Len(candidates) = 2
  /\ WithAst = {1, 2}
  /\ MergedWithAst = {"bar", "baz"}
  /\ CanonicalNames = {"bar"}
  /\ Len(result.type.astNodes) = 3
  /\ result.type.astNodes[3] =
       [kind |-> "definition", from |-> 2, fields |-> <<[field |-> "bar", from |-> 1]>>]

\* the extension AST nodes of candidate i
ExtensionNodesOf(i) == candidates[i].type.extensionASTNodes.items

\* C25 as claimed: for every kind the merged type's extension AST nodes are
\* the flat concatenation of the candidates' extension AST nodes: every
\* element of the merged list is one extension node, every node of every
\* candidate is in the list, a candidate's nodes keep their order and the
\* candidates theirs.
C25_Claimed ==
  Returned =>
    LET merged == result.type.extensionASTNodes
        IsNode(k) == "node" \in DOMAIN merged[k]
        PlaceOf(e) == CHOOSE k \in 1..Len(merged) : merged[k] = e
    IN /\ \A k \in 1..Len(merged) : IsNode(k)
       /\ \A i \in Indices : \A j \in 1..Len(ExtensionNodesOf(i)) :
            \E k \in 1..Len(merged) : merged[k] = ExtensionNodesOf(i)[j]
       /\ \A i \in Indices : \A j1, j2 \in 1..Len(ExtensionNodesOf(i)) :
            j1 < j2 => PlaceOf(ExtensionNodesOf(i)[j1]) < PlaceOf(ExtensionNodesOf(i)[j2])
       /\ \A i1, i2 \in Indices :
            (Rank(i1) < Rank(i2) /\ Len(ExtensionNodesOf(i1)) > 0
             /\ Len(ExtensionNodesOf(i2)) > 0) =>
              PlaceOf(ExtensionNodesOf(i1)[1]) < PlaceOf(ExtensionNodesOf(i2)[1])

\* ---- the HTTP transport ----

\* C26 as claimed: over the lifetime of one executor of the HTTP transport
\* with subscriptions configured, getTransportExecutor is called at most
\* once, whatever the number and interleaving of subscription requests, also
\* when requests arrive while the first resolution is pending; requests
\* other than subscriptions never call it.
C26_Claimed ==
  /\ transport.getTransportExecutorCalls <= 1
  /\ transport.getTransportExecutorCalls + transport.httpRequests <= transport.requests

\* the executors requested from getTransportExecutor before the disposal
ObtainedBeforeDispose == 1..transport.callsAtDispose

\* C27 as claimed: once the hybrid executor is disposed (and no resolution
\* is pending any more) the HTTP executor is disposed and so is every
\* disposable subscriptions executor that was requested through
\* getTransportExecutor before the disposal, in every interleaving, also
\* when dispose was called while the resolution was pending.
C27_Claimed ==
  (transport.hybridDisposed /\ transport.pending = {}) =>
    /\ transport.httpDisposed
    /\ transport.disposable =>
         (transport.resolved \cap ObtainedBeforeDispose) \subseteq transport.disposed

\* ---- the HMAC plugins ----

\* the onSubgraphExecute calls made so far
Executions == {signer.executions[i] : i \in 1..Len(signer.executions)}

\* C28: one useHmacUpstreamSignature instance imports the signing key at
\* most once, however many onSubgraphExecute calls sign and however they
\* interleave with the pending import; without a signing call no key is
\* imported, and a call whose shouldSign is false stays skipped: it never
\* reaches the key, the signing or setExecutionRequest.
C28_KeyImportedOnce ==
  /\ signer.createCryptoKeyCalls <= 1
  /\ (\A x \in Executions : ~x.shouldSign) =>
       signer.createCryptoKeyCalls = 0 /\ signer.key = "undefined"
  /\ \A x \in Executions :
       ~x.shouldSign => x.stage = "skipped" /\ x.extension = <<>>

\* a second signing call started while the first import was pending, and a
\* call that does not sign was made as well
C28_Witness ==
  /\ signer.key = "promise"
  /\ signer.createCryptoKeyCalls = 1
  /\ Len(signer.executions) = 3
  /\ signer.executions[1].stage = "awaitingKey"
  /\ signer.executions[2].stage = "skipped"
  /\ signer.executions[3].stage = "awaitingKey"

\* the onParams calls made so far
Requests == {validator.requests[i] : i \in 1..Len(validator.requests)}

\* C29: onParams lets a request through only if it carries the signature
\* extension and that signature is the HMAC of its serialized params under
\* the configured secret.  A request without the extension is rejected with
\* the 'Missing HMAC signature' error and never reaches the key import or
\* the verification (while only such requests were made no key is
\* imported); a request whose verification fails is rejected with the
\* 'Invalid HMAC signature' error.
C29_OnlySignedRequestsPass ==
  /\ \A r \in Requests :
       /\ r.stage = "passed" =>
            /\ r.extension \notin {NoExtension, EmptyExtension}
            /\ r.extension = hmac(secret, r.body)
       /\ r.extension \in {NoExtension, EmptyExtension} =>
            r.stage = "rejected" /\ r.error = MissingError
       /\ (r.extension \notin {NoExtension, EmptyExtension}
             /\ r.extension # hmac(secret, r.body)) =>
            \/ r.stage \in {"awaitingKey", "verifying"}
            \/ r.stage = "rejected" /\ r.error = InvalidError
  /\ (\A r \in Requests : r.extension \in {NoExtension, EmptyExtension}) =>
       validator.createCryptoKeyCalls = 0 /\ validator.key = "undefined"

\* one request without the extension, one signed over other params and one
\* signed correctly have all been decided
C29_Witness ==
  /\ Len(validator.requests) = 3
  /\ validator.requests[1] =
       [extension |-> NoExtension, body |-> "a",
        stage |-> "rejected", error |-> MissingError]
  /\ validator.requests[2] =
       [extension |-> hmac(secret, "b"), body |-> "a",
        stage |-> "rejected", error |-> InvalidError]
  /\ validator.requests[3] =
       [extension |-> hmac(secret, "a"), body |-> "a",
        stage |-> "passed", error |-> ""]

\* ---- the Prometheus plugin ----

\* a header option that switches its label on: true or a list of headers
Enabled(option) == truthy(option)

\* how often name is in the list
Occurrences(list, name) == Cardinality({i \in 1..Len(list) : list[i] = name})

\* C30 as claimed: the label-name list of the fetch-duration histogram has
\* 'requestHeaders' only when labels.fetchRequestHeaders is enabled and
\* 'responseHeaders' only when labels.fetchResponseHeaders is enabled (both
\* are off by default), and has no label name twice.
C30_Claimed ==
  prometheus.stage # "options" =>
    /\ Occurrences(prometheus.fetchLabelNames, "requestHeaders") > 0 =>
         Enabled(labelOption(prometheus.labels, "fetchRequestHeaders"))
    /\ Occurrences(prometheus.fetchLabelNames, "responseHeaders") > 0 =>
         Enabled(labelOption(prometheus.labels, "fetchResponseHeaders"))
    /\ \A i \in 1..Len(prometheus.fetchLabelNames) :
         Occurrences(prometheus.fetchLabelNames, prometheus.fetchLabelNames[i]) = 1

=============================================================================
